---- MODULE Spec2Model ----
(***************************************************************************)
(* Cloud sync, conflict resolution and merge of the travel planner         *)
(* (components/Settings.tsx and the SupabaseService it calls).             *)
(*                                                                         *)
(* The Settings component is a React function component: every handler is  *)
(* a closure over the props and state of the render in which the user      *)
(* clicked, so an async handler keeps using the fullData it captured when  *)
(* it started.  A request in flight is therefore a record that carries the *)
(* captured values.                                                        *)
(***************************************************************************)
EXTENDS Integers, Sequences, FiniteSets, TLC

(***************************************************************************)
(* Bounds of the model.                                                    *)
(***************************************************************************)
\* local edits (trip/profile/event changes) in one behaviour
MaxLocalEdits == 1
\* writes by another device to the same Sync Identifier in one behaviour
MaxRemoteWrites == 1
\* requests of this device that may be outstanding at once
MaxPending == 1

(***************************************************************************)
(* Data: Dataset, Trip Aggregate.                                          *)
(***************************************************************************)
TripIds == {"A", "B"}
\* the order in which the trip array is walked
TripOrder == <<"A", "B">>

Titles == {"t1", "t2"}
Budgets == {50, 100, 200}
Flights == {0, 1}
Profiles == {"p1", "p2"}
EventSets == {"e1", "e2"}

\* Trip without its id (the id is the key of the trip collection)
Trip == [title : Titles, budget : Budgets, flights : Flights]

TripMaps == UNION {[S -> Trip] : S \in SUBSET TripIds}

\* fullData: { trips, userProfile, customEvents }
Dataset == [trips : TripMaps, userProfile : Profiles, customEvents : EventSets]

\* "no backup under this identifier" / null remoteData
Null == [null |-> TRUE]

EmptyTrips == [id \in {} |-> id]

\* the fields the Differ compares, in the order it compares them
ComparedFields == <<"title", "budget">>

(***************************************************************************)
(* Snapshot Differ (SupabaseService.checkForConflicts).                    *)
(***************************************************************************)
\* the value of a compared field as the conflict dialog shows it
FieldValue(trip, field) ==
  IF field = "title" THEN trip.title ELSE ToString(trip.budget)

\* variant: an item for every compared field, equal or not
TripConflictsEveryField(id, localTrip, remoteTrip) ==
  [i \in 1..Len(ComparedFields) |->
     [tripId |-> id,
      tripTitle |-> localTrip.title,
      field |-> ComparedFields[i],
      localValue |-> FieldValue(localTrip, ComparedFields[i]),
      remoteValue |-> FieldValue(remoteTrip, ComparedFields[i])]]

\* the Conflict Items of one trip id present on both sides
TripConflicts(id, localTrip, remoteTrip) ==
  LET items == [i \in 1..Len(ComparedFields) |->
                  [tripId |-> id,
                   tripTitle |-> localTrip.title,
                   field |-> ComparedFields[i],
                   localValue |-> FieldValue(localTrip, ComparedFields[i]),
                   remoteValue |-> FieldValue(remoteTrip, ComparedFields[i])]]
  IN SelectSeq(items, LAMBDA c : c.localValue # c.remoteValue)

RECURSIVE ConflictsFrom(_, _, _)
ConflictsFrom(i, localTrips, remoteTrips) ==
  IF i > Len(TripOrder) THEN <<>>
  ELSE LET id == TripOrder[i]
           here == IF id \in DOMAIN localTrips /\ id \in DOMAIN remoteTrips
                   THEN TripConflicts(id, localTrips[id], remoteTrips[id])
                   ELSE <<>>
       IN here \o ConflictsFrom(i + 1, localTrips, remoteTrips)

\* variant: a trip missing on the remote side is reported as a conflict
detectConflictsWithMissing(localData, remoteData) ==
  IF remoteData = Null THEN <<>>
  ELSE ConflictsFrom(1, localData.trips, remoteData.trips) \o
       SelectSeq([i \in 1..Len(TripOrder) |->
                    [tripId |-> TripOrder[i], tripTitle |-> "",
                     field |-> "title", localValue |-> "",
                     remoteValue |-> ""]],
                 LAMBDA c : c.tripId \in DOMAIN localData.trips
                              \ DOMAIN remoteData.trips)

detectConflicts(localData, remoteData) ==
  IF remoteData = Null THEN <<>>
  ELSE ConflictsFrom(1, localData.trips, remoteData.trips)

\* result of a successful checkForConflicts(syncId, fullData) when the blob
\* stored under the identifier is `stored`
checkForConflicts(stored, localData) ==
  [conflicts |-> detectConflicts(localData, stored), remoteData |-> stored]

(***************************************************************************)
(* Merge Engine (SupabaseService.saveGlobalBackup).                        *)
(***************************************************************************)
Choices == {"local", "remote"}
ResolutionMaps == UNION {[S -> Choices] : S \in SUBSET TripIds}
EmptyMap == [id \in {} |-> "local"]

RemoteTrips(remoteData) ==
  IF remoteData = Null THEN EmptyTrips ELSE remoteData.trips

MergeTrip(id, localTrips, remoteTrips, resolutions) ==
  IF id \notin DOMAIN remoteTrips THEN localTrips[id]
  ELSE IF id \notin DOMAIN localTrips THEN remoteTrips[id]
  ELSE IF id \in DOMAIN resolutions /\ resolutions[id] = "remote"
       THEN remoteTrips[id]
       ELSE localTrips[id]

\* variant: the output is built by walking the local trips only
mergeLocalIds(localData, remoteData, resolutions) ==
  LET remoteTrips == RemoteTrips(remoteData)
  IN [trips |-> [id \in DOMAIN localData.trips |->
                   MergeTrip(id, localData.trips, remoteTrips, resolutions)],
      userProfile |-> localData.userProfile,
      customEvents |-> localData.customEvents]

merge(localData, remoteData, resolutions) ==
  LET remoteTrips == RemoteTrips(remoteData)
  IN [trips |-> [id \in DOMAIN localData.trips \cup DOMAIN remoteTrips |->
                   MergeTrip(id, localData.trips, remoteTrips, resolutions)],
      userProfile |-> localData.userProfile,
      customEvents |-> localData.customEvents]

(***************************************************************************)
(* Local state owned by the application (App callbacks handed to the       *)
(* components as props).                                                   *)
(***************************************************************************)
onImportData(data) == data

onUpdateTrip(data, id, trip) ==
  [data EXCEPT !.trips = [i \in DOMAIN data.trips |->
                            IF i = id THEN trip ELSE data.trips[i]]]

onAddTrip(data, id, trip) ==
  [data EXCEPT !.trips = [i \in DOMAIN data.trips \cup {id} |->
                            IF i = id THEN trip ELSE data.trips[i]]]

onDeleteTrip(data, id) ==
  [data EXCEPT !.trips = [i \in DOMAIN data.trips \ {id} |-> data.trips[i]]]

setUserProfile(data, profile) == [data EXCEPT !.userProfile = profile]

onUpdateEvents(data, events) == [data EXCEPT !.customEvents = events]

(***************************************************************************)
(* State.                                                                  *)
(***************************************************************************)
VARIABLES
  fullData,           \* the local Dataset (prop fullData of Settings)
  remoteStore,        \* the blob stored under the Sync Identifier, or Null
  isSyncing,          \* useState isSyncing
  syncStatus,         \* useState syncStatus
  conflicts,          \* useState conflicts (ConflictItem[])
  remoteDataCache,    \* useState remoteDataCache
  resolutionMap,      \* useState resolutionMap
  showConflictModal,  \* useState showConflictModal
  idleTimer,          \* a setTimeout(() => setSyncStatus('idle')) is armed
  pending,            \* requests of this device that are in flight
  lastEvent,          \* outcome of the sync step just taken (history)
  localEdits,         \* number of local edits so far
  remoteWrites,       \* number of writes by another device so far
  call,               \* one application of the Differ and the Merge Engine
  cancelled,          \* the dialog state on hand is a cancelled attempt's (history)
  failedSinceFetch,   \* a fetch or a merge write failed and no fetch has
                      \* completed since (history)
  syncId,             \* useState syncId (persisted as wanderlust_sync_id)
  inputSyncId,        \* useState inputSyncId (the Restore from ID field)
  isEditingId,        \* useState isEditingId
  tempId,             \* useState tempId (the Sync ID edit field)
  backups,            \* the blobs of the store, by identifier
  idRequest,          \* the loadGlobalBackup call in flight, or Null
  idEvent,            \* outcome of the identifier step just taken (history)
  showForm,           \* Planner: useState showForm
  editingTripId,      \* Planner: useState editingTripId ("" for null)
  showVersionPanel,   \* Planner: useState showVersionPanel
  versions,           \* Planner: useState versions (TripVersion[])
  formState,          \* Planner: useState formState
  versionStore,       \* the Trip Versions the store holds
  versionRequest,     \* Planner: the version listings in flight
  plannerEvent,       \* outcome of the Planner step just taken (history)
  versionNote,        \* Planner: useState versionNote
  isLoadingVersions,  \* Planner: useState isLoadingVersions
  toastMessage,       \* Planner: useState toastMessage
  saveRequest,        \* Planner: the saveTripVersion calls in flight
  savedLog            \* what handleSaveVersion handed to the store (history)

\* Settings: the Sync Identifier and the store it addresses
idState == <<syncId, inputSyncId, isEditingId, tempId, backups, idRequest,
             idEvent>>

\* Planner: the edit form and its version panel
plannerState == <<showForm, editingTripId, showVersionPanel, versions,
                  formState, versionStore, versionRequest, plannerEvent,
                  versionNote, isLoadingVersions, toastMessage, saveRequest,
                  savedLog>>

\* Planner: the snapshot box of the version panel and what it has in flight
snapshotState == <<versionNote, isLoadingVersions, toastMessage, saveRequest,
                   savedLog>>

vars == <<fullData, remoteStore, isSyncing, syncStatus, conflicts,
          remoteDataCache, resolutionMap, showConflictModal, idleTimer,
          pending, lastEvent, localEdits, remoteWrites, call, cancelled,
          failedSinceFetch,
          idState, plannerState>>

settingsState == <<isSyncing, syncStatus, conflicts, remoteDataCache,
                   resolutionMap, showConflictModal, idleTimer>>

\* the trips the sync scenarios are played with
TripA == [title |-> "t1", budget |-> 100, flights |-> 0]
TripB == [title |-> "t2", budget |-> 200, flights |-> 1]
SyncTrips == {TripA, TripB}

SyncTripMaps == UNION {[S -> SyncTrips] : S \in SUBSET TripIds}

\* the local Datasets a behaviour may start from
LocalSeeds ==
  [trips : SyncTripMaps, userProfile : {"p1"}, customEvents : {"e1"}]

\* the blobs another device may have written under the Sync Identifier
OtherDeviceBlobs ==
  {[trips |-> [id \in {"A", "B"} |-> IF id = "A" THEN TripB ELSE TripA],
    userProfile |-> "p2", customEvents |-> "e2"],
   [trips |-> [id \in {"A"} |-> TripA],
    userProfile |-> "p1", customEvents |-> "e2"],
   [trips |-> [id \in {"B"} |-> TripB],
    userProfile |-> "p2", customEvents |-> "e1"]}

\* a request in flight: the arguments its closure captured, what the store
\* wrote for it, and (history) the choices the dialog showed when it was issued
Request(op, localData, remoteData, resolutions) ==
  [op |-> op, local |-> localData, remoteData |-> remoteData,
   resolutions |-> resolutions, written |-> Null, shown |-> EmptyMap]

NoEvent ==
  [kind |-> "none", local |-> Null, remoteData |-> Null,
   resolutions |-> EmptyMap, written |-> Null, shown |-> EmptyMap,
   merged |-> Null, localBefore |-> Null, remoteBefore |-> Null]

Event(kind, req, merged) ==
  [kind |-> kind, local |-> req.local, remoteData |-> req.remoteData,
   resolutions |-> req.resolutions, written |-> req.written,
   shown |-> req.shown, merged |-> merged,
   localBefore |-> fullData, remoteBefore |-> remoteStore]

\* an application of detectConflicts followed by merge to given arguments
Call(step, localData, remoteData, resolutions, found, merged) ==
  [step |-> step, local |-> localData, remoteData |-> remoteData,
   resolutions |-> resolutions, conflicts |-> found, merged |-> merged]

NoCall == Call("none", Null, Null, EmptyMap, <<>>, Null)

RemoveAt(s, i) == SubSeq(s, 1, i - 1) \o SubSeq(s, i + 1, Len(s))

\* the Settings component after mounting, nothing in flight
SettingsInit ==
  /\ isSyncing = FALSE
  /\ syncStatus = "idle"
  /\ conflicts = <<>>
  /\ remoteDataCache = Null
  /\ resolutionMap = EmptyMap
  /\ showConflictModal = FALSE
  /\ idleTimer = FALSE
  /\ pending = <<>>
  /\ lastEvent = NoEvent
  /\ localEdits = 0
  /\ remoteWrites = 0
  /\ cancelled = FALSE
  /\ failedSinceFetch = FALSE

\* the outcome of an identifier step: the identifier it was about, whether a
\* backup was found under it, what the user was shown and answered, and the
\* state before the step
NoIdEvent ==
  [kind |-> "none", id |-> <<>>, existing |-> FALSE, warned |-> FALSE,
   confirmed |-> FALSE, syncIdBefore |-> <<>>, localBefore |-> Null]

\* no backup anywhere
NoBackups == [id \in {} |-> Null]

\* the identifier section of Settings at rest, the Sync Identifier being id
IdIdle(id) ==
  /\ syncId = id
  /\ inputSyncId = <<>>
  /\ isEditingId = FALSE
  /\ tempId = <<>>
  /\ idRequest = Null
  /\ idEvent = NoIdEvent

\* the edit form of the Planner, as useState initializes it
EmptyForm == [title |-> "", budget |-> 1000]

\* editingTripId when no trip is being edited
NoTripId == ""

\* the outcome of a Planner step: the version and the trip it was about,
\* what the user was asked and answered, the trip it produced, and the state
\* before the step
NoPlannerEvent ==
  [kind |-> "none", version |-> Null, target |-> NoTripId, asked |-> "none",
   answer |-> FALSE, restored |-> Null, localBefore |-> Null,
   formBefore |-> Null, panelBefore |-> FALSE]

\* the Planner after mounting
PlannerInit ==
  /\ showForm = FALSE
  /\ editingTripId = NoTripId
  /\ showVersionPanel = FALSE
  /\ versions = <<>>
  /\ formState = EmptyForm
  /\ versionRequest = {}
  /\ plannerEvent = NoPlannerEvent
  /\ versionNote = ""
  /\ isLoadingVersions = FALSE
  /\ toastMessage = ""
  /\ saveRequest = <<>>
  /\ savedLog = <<>>

\* the Sync Identifier the sync scenarios are played under
SyncKey == <<"W", "X", "Y", "Z">>

Init ==
  /\ fullData \in LocalSeeds
  /\ remoteStore \in OtherDeviceBlobs \cup {Null}
  /\ SettingsInit
  /\ call = NoCall
  /\ IdIdle(SyncKey)
  /\ backups = NoBackups
  /\ PlannerInit
  /\ versionStore = <<>>

(***************************************************************************)
(* Settings: Sync & Merge.                                                 *)
(***************************************************************************)
\* variant: a sync after a cancel resumes the dialog that was closed
handleCloudSyncResumes ==
  /\ ~isSyncing
  /\ ~showConflictModal
  /\ Len(pending) < MaxPending
  /\ IF remoteDataCache # Null
     THEN /\ showConflictModal' = TRUE
          /\ UNCHANGED <<isSyncing, syncStatus, pending>>
     ELSE /\ isSyncing' = TRUE
          /\ syncStatus' = "idle"
          /\ pending' = Append(pending,
                               Request("check", fullData, Null, EmptyMap))
          /\ UNCHANGED showConflictModal
  /\ lastEvent' = NoEvent
  /\ UNCHANGED <<fullData, remoteStore, conflicts, remoteDataCache,
                 resolutionMap, idleTimer, localEdits, remoteWrites, call>>
  /\ UNCHANGED <<cancelled, failedSinceFetch, idState, plannerState>>

\* the Sync & Merge button (disabled while isSyncing, covered by the dialog
\* while it is open): handleCloudSync up to its await, while fewer than cap
\* requests are in flight
handleCloudSyncWithin(cap) ==
  /\ ~isSyncing
  /\ ~showConflictModal
  /\ Len(pending) < cap
  /\ isSyncing' = TRUE
  /\ syncStatus' = "idle"
  /\ pending' = Append(pending, Request("check", fullData, Null, EmptyMap))
  /\ lastEvent' = NoEvent
  /\ UNCHANGED <<fullData, remoteStore, conflicts, remoteDataCache,
                 resolutionMap, showConflictModal, idleTimer, localEdits,
                 remoteWrites, call>>
  /\ UNCHANGED <<cancelled, failedSinceFetch, idState, plannerState>>

handleCloudSync == handleCloudSyncWithin(MaxPending)

\* variant: only the first Conflict Item's trip gets an entry
InitialMapFirstOnly(foundConflicts) ==
  [id \in {foundConflicts[1].tripId} |-> "local"]

\* the initial Resolution Map: "local" for every tripId of a Conflict Item
InitialMap(foundConflicts) ==
  [id \in {foundConflicts[k].tripId : k \in 1..Len(foundConflicts)} |->
     "local"]

\* performSync up to its await: the arguments of saveGlobalBackup
performSync(localData, remoteData, resolutions) ==
  Request("save", localData, remoteData, resolutions)

\* variant: with conflicts found the dialog opens and the merge is started
\* at once with the initial choices
checkForConflictsResolvedMergesAnyway(i) ==
  /\ pending[i].op = "check"
  /\ LET req == pending[i]
         res == checkForConflicts(remoteStore, req.local)
     IN IF Len(res.conflicts) > 0
        THEN /\ conflicts' = res.conflicts
             /\ remoteDataCache' = res.remoteData
             /\ resolutionMap' = InitialMap(res.conflicts)
             /\ showConflictModal' = TRUE
             /\ pending' = [pending EXCEPT
                  ![i] = performSync(req.local, res.remoteData,
                                     InitialMap(res.conflicts))]
             /\ cancelled' = FALSE
             /\ UNCHANGED <<syncStatus, isSyncing>>
        ELSE /\ pending' = [pending EXCEPT
                  ![i] = performSync(req.local, res.remoteData, EmptyMap)]
             /\ UNCHANGED <<conflicts, remoteDataCache, resolutionMap,
                            showConflictModal, isSyncing, syncStatus,
                            cancelled>>
  /\ lastEvent' = NoEvent
  /\ failedSinceFetch' = FALSE
  /\ UNCHANGED <<fullData, remoteStore, idleTimer, localEdits, remoteWrites,
                 call>>
  /\ UNCHANGED <<idState, plannerState>>

\* handleCloudSync after checkForConflicts resolved
checkForConflictsResolved(i) ==
  /\ pending[i].op = "check"
  /\ LET req == pending[i]
         res == checkForConflicts(remoteStore, req.local)
     IN IF Len(res.conflicts) > 0
        THEN /\ conflicts' = res.conflicts
             /\ remoteDataCache' = res.remoteData
             /\ resolutionMap' = InitialMap(res.conflicts)
             /\ showConflictModal' = TRUE
             /\ isSyncing' = FALSE
             /\ pending' = RemoveAt(pending, i)
             /\ cancelled' = FALSE
             /\ UNCHANGED syncStatus
        ELSE /\ pending' = [pending EXCEPT
                  ![i] = performSync(req.local, res.remoteData, EmptyMap)]
             /\ UNCHANGED <<conflicts, remoteDataCache, resolutionMap,
                            showConflictModal, isSyncing, syncStatus,
                            cancelled>>
  /\ lastEvent' = NoEvent
  /\ failedSinceFetch' = FALSE
  /\ UNCHANGED <<fullData, remoteStore, idleTimer, localEdits, remoteWrites,
                 call>>
  /\ UNCHANGED <<idState, plannerState>>

\* variant: a failed fetch is taken for "no backup yet" and the merge goes on
checkForConflictsRejectedGoesOn(i) ==
  /\ pending[i].op = "check"
  /\ pending' = [pending EXCEPT
                   ![i] = performSync(pending[i].local, Null, EmptyMap)]
  /\ lastEvent' = Event("fetchFailed", pending[i], Null)
  /\ UNCHANGED <<fullData, remoteStore, isSyncing, syncStatus, conflicts,
                 remoteDataCache, resolutionMap, showConflictModal, idleTimer,
                 localEdits, remoteWrites, call>>
  /\ failedSinceFetch' = TRUE
  /\ UNCHANGED <<cancelled, idState, plannerState>>

\* handleCloudSync's catch: checkForConflicts rejected
checkForConflictsRejected(i) ==
  /\ pending[i].op = "check"
  /\ syncStatus' = "error"
  /\ isSyncing' = FALSE
  /\ pending' = RemoveAt(pending, i)
  /\ lastEvent' = Event("fetchFailed", pending[i], Null)
  /\ UNCHANGED <<fullData, remoteStore, conflicts, remoteDataCache,
                 resolutionMap, showConflictModal, idleTimer, localEdits,
                 remoteWrites, call>>
  /\ failedSinceFetch' = TRUE
  /\ UNCHANGED <<cancelled, idState, plannerState>>

\* the MergedDataset saveGlobalBackup builds from its arguments
saveGlobalBackupMerged(req) ==
  merge(req.local, req.remoteData, req.resolutions)

\* what saveGlobalBackup resolves to: the MergedDataset it wrote
saveGlobalBackupResult(req) == req.written

\* the store accepts the write of saveGlobalBackup; its response is in flight
saveGlobalBackupWrite(i) ==
  /\ pending[i].op = "save"
  /\ LET mergedData == saveGlobalBackupMerged(pending[i])
     IN /\ remoteStore' = mergedData
        /\ pending' = [pending EXCEPT ![i].op = "saved",
                                      ![i].written = mergedData]
  /\ lastEvent' = NoEvent
  /\ UNCHANGED <<fullData, settingsState, localEdits, remoteWrites, call>>
  /\ UNCHANGED <<cancelled, failedSinceFetch, idState, plannerState>>

\* variant: onImportData(fullData)
importedLocalData(mergedData, req, stored) == req.local

\* variant: onImportData(remoteData)
importedRemoteData(mergedData, req, stored) ==
  IF req.remoteData # Null THEN req.remoteData ELSE mergedData

\* variant: the store is read again after the write
importedReadBack(mergedData, req, stored) == stored

\* the argument of onImportData: performSync hands over the value that
\* saveGlobalBackup resolved to; it does not read the store again
importedData(mergedData, req, stored) == mergedData

\* performSync after saveGlobalBackup resolved
saveGlobalBackupResolved(i) ==
  /\ pending[i].op = "saved"
  /\ LET mergedData == saveGlobalBackupResult(pending[i])
         imported == importedData(mergedData, pending[i], remoteStore)
     IN /\ fullData' = onImportData(imported)
        /\ lastEvent' = Event("synced", pending[i], imported)
  /\ syncStatus' = "success"
  /\ idleTimer' = TRUE
  /\ showConflictModal' = FALSE
  /\ conflicts' = <<>>
  /\ remoteDataCache' = Null
  /\ isSyncing' = FALSE
  /\ pending' = RemoveAt(pending, i)
  /\ UNCHANGED <<remoteStore, resolutionMap, localEdits, remoteWrites, call>>
  /\ cancelled' = FALSE
  /\ UNCHANGED <<failedSinceFetch, idState, plannerState>>

\* variant: the merged data is imported before the write is known to succeed
saveGlobalBackupRejectedAfterImport(i) ==
  /\ pending[i].op = "save"
  /\ fullData' = onImportData(saveGlobalBackupMerged(pending[i]))
  /\ syncStatus' = "error"
  /\ isSyncing' = FALSE
  /\ pending' = RemoveAt(pending, i)
  /\ lastEvent' = Event("saveFailed", pending[i], Null)
  /\ UNCHANGED <<remoteStore, conflicts, remoteDataCache, resolutionMap,
                 showConflictModal, idleTimer, localEdits, remoteWrites,
                 call>>
  /\ failedSinceFetch' = TRUE
  /\ UNCHANGED <<cancelled, idState, plannerState>>

\* performSync's catch and finally: saveGlobalBackup rejected
saveGlobalBackupRejected(i) ==
  /\ pending[i].op = "save"
  /\ syncStatus' = "error"
  /\ isSyncing' = FALSE
  /\ pending' = RemoveAt(pending, i)
  /\ lastEvent' = Event("saveFailed", pending[i], Null)
  /\ UNCHANGED <<fullData, remoteStore, conflicts, remoteDataCache,
                 resolutionMap, showConflictModal, idleTimer, localEdits,
                 remoteWrites, call>>
  /\ failedSinceFetch' = TRUE
  /\ UNCHANGED <<cancelled, idState, plannerState>>

\* setTimeout(() => setSyncStatus('idle'), 3000) fires
syncStatusTimeout ==
  /\ idleTimer
  /\ syncStatus' = "idle"
  /\ idleTimer' \in BOOLEAN
  /\ lastEvent' = NoEvent
  /\ UNCHANGED <<fullData, remoteStore, isSyncing, conflicts,
                 remoteDataCache, resolutionMap, showConflictModal, pending,
                 localEdits, remoteWrites, call>>
  /\ UNCHANGED <<cancelled, failedSinceFetch, idState, plannerState>>

(***************************************************************************)
(* Settings: the conflict dialog (Resolution Collector).                   *)
(***************************************************************************)
ConflictTripIds == {conflicts[k].tripId : k \in 1..Len(conflicts)}

\* variant: a trip without an entry shows "remote"
currentChoiceRemote(map, tripId) ==
  IF tripId \in DOMAIN map THEN map[tripId] ELSE "remote"

\* the choice the dialog shows as selected for a trip
currentChoice(map, tripId) ==
  IF tripId \in DOMAIN map THEN map[tripId] ELSE "local"

\* the choices the dialog shows, per conflicting trip
ShownChoices == [id \in ConflictTripIds |-> currentChoice(resolutionMap, id)]

\* variant: setResolutionMap(prev => every entry set to value)
handleResolutionChangeAll(tripId, value) ==
  /\ showConflictModal
  /\ tripId \in ConflictTripIds
  /\ resolutionMap' = [id \in DOMAIN resolutionMap \cup {tripId} |-> value]
  /\ lastEvent' = NoEvent
  /\ UNCHANGED <<fullData, remoteStore, isSyncing, syncStatus, conflicts,
                 remoteDataCache, showConflictModal, idleTimer, pending,
                 localEdits, remoteWrites, call>>
  /\ UNCHANGED <<cancelled, failedSinceFetch, idState, plannerState>>

\* the local / remote buttons of a conflicting trip:
\* setResolutionMap(prev => ({ ...prev, [tripId]: value }))
handleResolutionChange(tripId, value) ==
  /\ showConflictModal
  /\ tripId \in ConflictTripIds
  /\ resolutionMap' = [id \in DOMAIN resolutionMap \cup {tripId} |->
                         IF id = tripId THEN value ELSE resolutionMap[id]]
  /\ lastEvent' = NoEvent
  /\ UNCHANGED <<fullData, remoteStore, isSyncing, syncStatus, conflicts,
                 remoteDataCache, showConflictModal, idleTimer, pending,
                 localEdits, remoteWrites, call>>
  /\ UNCHANGED <<cancelled, failedSinceFetch, idState, plannerState>>

\* variant: performSync(remoteDataCache, {})
confirmedSyncNoChoices(localData, cache, map) ==
  performSync(localData, cache, EmptyMap)

\* the call handleConfirmResolution makes
confirmedSync(localData, cache, map) == performSync(localData, cache, map)

\* the confirmMerge button (never disabled), while fewer than cap requests
\* are in flight
handleConfirmResolutionWithin(cap) ==
  /\ showConflictModal
  /\ Len(pending) < cap
  /\ pending' = Append(pending,
       [confirmedSync(fullData, remoteDataCache, resolutionMap)
          EXCEPT !.shown = ShownChoices])
  /\ lastEvent' = NoEvent
  /\ UNCHANGED <<fullData, remoteStore, settingsState, localEdits,
                 remoteWrites, call>>
  /\ UNCHANGED <<cancelled, failedSinceFetch, idState, plannerState>>

handleConfirmResolution == handleConfirmResolutionWithin(MaxPending)

\* variant: closing the dialog also starts the merge
cancelSyncMerges ==
  /\ showConflictModal
  /\ showConflictModal' = FALSE
  /\ pending' = Append(pending,
                       performSync(fullData, remoteDataCache, resolutionMap))
  /\ lastEvent' = [NoEvent EXCEPT !.kind = "cancelled",
                                  !.localBefore = fullData,
                                  !.remoteBefore = remoteStore]
  /\ UNCHANGED <<fullData, remoteStore, isSyncing, syncStatus, conflicts,
                 remoteDataCache, resolutionMap, idleTimer, localEdits,
                 remoteWrites, call>>
  /\ cancelled' = TRUE
  /\ UNCHANGED <<failedSinceFetch, idState, plannerState>>

\* the cancelSync button and the click on the dialog's backdrop
cancelSync ==
  /\ showConflictModal
  /\ showConflictModal' = FALSE
  /\ lastEvent' = [NoEvent EXCEPT !.kind = "cancelled",
                                  !.localBefore = fullData,
                                  !.remoteBefore = remoteStore]
  /\ UNCHANGED <<fullData, remoteStore, isSyncing, syncStatus, conflicts,
                 remoteDataCache, resolutionMap, idleTimer, pending,
                 localEdits, remoteWrites, call>>
  /\ cancelled' = TRUE
  /\ UNCHANGED <<failedSinceFetch, idState, plannerState>>

(***************************************************************************)
(* The environment: edits of the local data, and another device that uses  *)
(* the same Sync Identifier.                                               *)
(***************************************************************************)
LocalEdit ==
  /\ ~showConflictModal
  /\ localEdits < MaxLocalEdits
  /\ localEdits' = localEdits + 1
  /\ \/ \E id \in DOMAIN fullData.trips, trip \in SyncTrips :
          /\ trip # fullData.trips[id]
          /\ fullData' = onUpdateTrip(fullData, id, trip)
     \/ \E id \in TripIds \ DOMAIN fullData.trips, trip \in SyncTrips :
          fullData' = onAddTrip(fullData, id, trip)
     \/ \E id \in DOMAIN fullData.trips :
          fullData' = onDeleteTrip(fullData, id)
     \/ \E profile \in Profiles \ {fullData.userProfile} :
          fullData' = setUserProfile(fullData, profile)
     \/ \E events \in EventSets \ {fullData.customEvents} :
          fullData' = onUpdateEvents(fullData, events)
  /\ lastEvent' = NoEvent
  /\ UNCHANGED <<remoteStore, settingsState, pending, remoteWrites, call>>
  /\ UNCHANGED <<cancelled, failedSinceFetch, idState, plannerState>>

OtherDeviceWrite ==
  /\ remoteWrites < MaxRemoteWrites
  /\ remoteWrites' = remoteWrites + 1
  /\ remoteStore' \in OtherDeviceBlobs \ {remoteStore}
  /\ lastEvent' = NoEvent
  /\ UNCHANGED <<fullData, settingsState, pending, localEdits, call>>
  /\ UNCHANGED <<cancelled, failedSinceFetch, idState, plannerState>>

Next ==
  \/ handleCloudSync
  \/ \E i \in 1..Len(pending) : checkForConflictsResolved(i)
  \/ \E i \in 1..Len(pending) : checkForConflictsRejected(i)
  \/ \E i \in 1..Len(pending) : saveGlobalBackupWrite(i)
  \/ \E i \in 1..Len(pending) : saveGlobalBackupResolved(i)
  \/ \E i \in 1..Len(pending) : saveGlobalBackupRejected(i)
  \/ syncStatusTimeout
  \/ \E tripId \in TripIds, value \in Choices :
       handleResolutionChange(tripId, value)
  \/ handleConfirmResolution
  \/ cancelSync
  \/ LocalEdit
  \/ OtherDeviceWrite

Spec == Init /\ [][Next]_vars

(***************************************************************************)
(* The sync flow with a second request allowed in flight: what the buttons *)
(* let the user start while a request is outstanding.                      *)
(***************************************************************************)
\* requests of this device that may be outstanding at once in SpecReentry
MaxInFlight == 2

NextReentry ==
  \/ handleCloudSyncWithin(MaxInFlight)
  \/ \E i \in 1..Len(pending) : checkForConflictsResolved(i)
  \/ \E i \in 1..Len(pending) : checkForConflictsRejected(i)
  \/ \E i \in 1..Len(pending) : saveGlobalBackupWrite(i)
  \/ \E i \in 1..Len(pending) : saveGlobalBackupResolved(i)
  \/ \E i \in 1..Len(pending) : saveGlobalBackupRejected(i)
  \/ syncStatusTimeout
  \/ \E tripId \in TripIds, value \in Choices :
       handleResolutionChange(tripId, value)
  \/ handleConfirmResolutionWithin(MaxInFlight)
  \/ cancelSync

SpecReentry == Init /\ [][NextReentry]_vars

(***************************************************************************)
(* Settings: the Sync Identifier.  An identifier is a string, modelled as  *)
(* the sequence of its characters.                                         *)
(***************************************************************************)
LowerLetters == {"a", "b", "w", "x", "y", "z"}
UpperLetters == {"A", "B", "W", "X", "Y", "Z"}
Digits == {"0", "1", "2"}

\* String.prototype.toUpperCase, character by character
UpperOf(c) ==
  CASE c = "a" -> "A" [] c = "b" -> "B" [] c = "w" -> "W"
    [] c = "x" -> "X" [] c = "y" -> "Y" [] c = "z" -> "Z"
    [] OTHER -> c

toUpperCase(str) == [i \in 1..Len(str) |-> UpperOf(str[i])]

RECURSIVE trimStart(_)
trimStart(str) ==
  IF str # <<>> /\ Head(str) = " " THEN trimStart(Tail(str)) ELSE str

RECURSIVE trimEnd(_)
trimEnd(str) ==
  IF str # <<>> /\ str[Len(str)] = " "
  THEN trimEnd(SubSeq(str, 1, Len(str) - 1))
  ELSE str

\* String.prototype.trim
trim(str) == trimEnd(trimStart(str))

\* String.prototype.substring(from, to), indices counted from 0
substring(str, from, to) ==
  SubSeq(str, from + 1, IF to < Len(str) THEN to ELSE Len(str))

\* /^[A-Z0-9-]+$/.test(str)
MatchesIdPattern(str) ==
  /\ str # <<>>
  /\ \A i \in 1..Len(str) : str[i] \in UpperLetters \cup Digits \cup {"-"}

\* what the user may type into the Sync ID field and the Restore field
TypedIds ==
  {<<>>,
   <<" ">>,
   <<"a", "b">>,
   <<"a", "b", "b", "a">>,
   <<" ", "a", "b", "b", "a", " ">>,
   <<"a", "b", "_", "a">>,
   <<"A", "B", "-", "1">>,
   <<"w", "x", "y", "z">>}

\* Math.random().toString(36): the base-36 expansions the model draws (all
\* of them have at least eight digits after the point)
RandomExpansions ==
  {<<"0", ".", "a", "b", "1", "2", "z", "y", "0", "w", "x", "1">>,
   <<"0", ".", "z", "0", "b", "a", "2", "2", "x", "y", "1">>}

\* the blob another device has stored under an identifier
StoredBlob ==
  [trips |-> [id \in {"B"} |-> TripB], userProfile |-> "p2",
   customEvents |-> "e2"]

\* the identifiers under which the store may already hold a backup
StoredKeys == {<<"A", "B", "B", "A">>, <<"A", "B">>}

\* everything of the sync flow that the identifier handlers leave alone
syncFlow == <<remoteStore, syncStatus, conflicts, remoteDataCache,
              resolutionMap, showConflictModal, idleTimer, pending,
              lastEvent, localEdits, remoteWrites, call, cancelled,
              failedSinceFetch>>

IdEvent(kind, id, existing, warned, confirmed) ==
  [kind |-> kind, id |-> id, existing |-> existing, warned |-> warned,
   confirmed |-> confirmed, syncIdBefore |-> syncId,
   localBefore |-> fullData]

\* useEffect: no identifier yet, generate one and persist it
generateSyncId ==
  /\ syncId = <<>>
  /\ \E random \in RandomExpansions :
       LET newId == toUpperCase(substring(random, 2, 10))
       IN /\ syncId' = newId
          /\ idEvent' = IdEvent("generated", newId, FALSE, FALSE, FALSE)
  /\ UNCHANGED <<fullData, isSyncing, inputSyncId, isEditingId, tempId,
                 backups, idRequest, syncFlow, plannerState>>

\* the Edit link
startEditingId ==
  /\ tempId' = syncId
  /\ isEditingId' = TRUE
  /\ idEvent' = NoIdEvent
  /\ UNCHANGED <<fullData, isSyncing, syncId, inputSyncId, backups,
                 idRequest, syncFlow, plannerState>>

\* onChange of the Sync ID field: setTempId(e.target.value.toUpperCase())
setTempId(typed) ==
  /\ isEditingId
  /\ tempId' = toUpperCase(typed)
  /\ tempId' # tempId
  /\ idEvent' = NoIdEvent
  /\ UNCHANGED <<fullData, isSyncing, syncId, inputSyncId, isEditingId,
                 backups, idRequest, syncFlow, plannerState>>

\* onChange of the Restore field: setInputSyncId(e.target.value.toUpperCase())
setInputSyncId(typed) ==
  /\ inputSyncId' = toUpperCase(typed)
  /\ inputSyncId' # inputSyncId
  /\ idEvent' = NoIdEvent
  /\ UNCHANGED <<fullData, isSyncing, syncId, isEditingId, tempId, backups,
                 idRequest, syncFlow, plannerState>>

\* SupabaseService.loadGlobalBackup(id): the backup stored under id, or null
loadGlobalBackup(stored, id) ==
  IF id \in DOMAIN stored THEN [data |-> stored[id]] ELSE Null

\* the ✓ button of the Sync ID field: saveEditedId up to its await
saveEditedId ==
  /\ isEditingId
  /\ ~isSyncing
  /\ LET newId == toUpperCase(trim(tempId))
     IN /\ idEvent' = IdEvent("saveEditedId", newId, FALSE, FALSE, FALSE)
        /\ IF newId = <<>> \/ newId = syncId
           THEN /\ isEditingId' = FALSE
                /\ UNCHANGED <<isSyncing, idRequest>>
           ELSE IF Len(newId) < 4
           THEN UNCHANGED <<isEditingId, isSyncing, idRequest>>
           ELSE IF ~MatchesIdPattern(newId)
           THEN UNCHANGED <<isEditingId, isSyncing, idRequest>>
           ELSE /\ isSyncing' = TRUE
                /\ idRequest' = [op |-> "probe", id |-> newId]
                /\ UNCHANGED isEditingId
  /\ UNCHANGED <<fullData, syncId, inputSyncId, tempId, backups, syncFlow,
                 plannerState>>

\* the text of the window.confirm of saveEditedId
confirmMsg(existing) ==
  IF existing # Null THEN "warning: id already in use" ELSE "available"

\* variant: an identifier that is free is taken without asking
syncIdSwitchedWhenFree(existing, answer) == answer \/ existing = Null

\* saveEditedId sets the new identifier if the user answered the confirm
\* with OK
syncIdSwitched(existing, answer) == answer

\* saveEditedId after loadGlobalBackup resolved
saveEditedIdAnswered ==
  /\ idRequest # Null
  /\ idRequest.op = "probe"
  /\ LET newId == idRequest.id
         existing == loadGlobalBackup(backups, newId)
     IN \E answer \in BOOLEAN :
          /\ idEvent' = IdEvent("probeAnswered", newId, existing # Null,
                                confirmMsg(existing) # "available", answer)
          /\ IF syncIdSwitched(existing, answer)
             THEN /\ syncId' = newId
                  /\ isEditingId' = FALSE
             ELSE UNCHANGED <<syncId, isEditingId>>
  /\ isSyncing' = FALSE
  /\ idRequest' = Null
  /\ UNCHANGED <<fullData, inputSyncId, tempId, backups, syncFlow,
                 plannerState>>

\* the Restore button: handleCloudRestore up to its await
handleCloudRestore ==
  /\ ~isSyncing
  /\ inputSyncId # <<>>
  /\ LET targetId == toUpperCase(trim(inputSyncId))
     IN /\ idEvent' = IdEvent("handleCloudRestore", targetId, FALSE, FALSE,
                              FALSE)
        /\ IF trim(inputSyncId) = <<>>
           THEN UNCHANGED <<isSyncing, idRequest>>
           ELSE /\ isSyncing' = TRUE
                /\ idRequest' = [op |-> "restore", id |-> targetId]
  /\ UNCHANGED <<fullData, syncId, inputSyncId, isEditingId, tempId, backups,
                 syncFlow, plannerState>>

\* variant: setIsSyncing(false) at the end of the try block and in the catch
\* instead of in a finally: a declined confirm returns before it
handleCloudRestoreAnsweredNoFinally ==
  /\ idRequest # Null
  /\ idRequest.op = "restore"
  /\ LET targetId == idRequest.id
         result == loadGlobalBackup(backups, targetId)
     IN IF result # Null
        THEN \E answer \in BOOLEAN :
               /\ idEvent' = IdEvent("restoreAnswered", targetId, TRUE, TRUE,
                                     answer)
               /\ IF answer
                  THEN /\ fullData' = onImportData(result.data)
                       /\ syncId' = targetId
                       /\ inputSyncId' = <<>>
                       /\ isSyncing' = FALSE
                  ELSE UNCHANGED <<fullData, syncId, inputSyncId, isSyncing>>
        ELSE /\ idEvent' = IdEvent("restoreAnswered", targetId, FALSE, FALSE,
                                   FALSE)
             /\ isSyncing' = FALSE
             /\ UNCHANGED <<fullData, syncId, inputSyncId>>
  /\ idRequest' = Null
  /\ UNCHANGED <<isEditingId, tempId, backups, syncFlow, plannerState>>

\* variant: the app is linked to the identifier as soon as a backup is found,
\* before the user is asked
handleCloudRestoreAnsweredLinksFirst ==
  /\ idRequest # Null
  /\ idRequest.op = "restore"
  /\ LET targetId == idRequest.id
         result == loadGlobalBackup(backups, targetId)
     IN IF result # Null
        THEN \E answer \in BOOLEAN :
               /\ idEvent' = IdEvent("restoreAnswered", targetId, TRUE, TRUE,
                                     answer)
               /\ syncId' = targetId
               /\ IF answer
                  THEN /\ fullData' = onImportData(result.data)
                       /\ inputSyncId' = <<>>
                  ELSE UNCHANGED <<fullData, inputSyncId>>
        ELSE /\ idEvent' = IdEvent("restoreAnswered", targetId, FALSE, FALSE,
                                   FALSE)
             /\ UNCHANGED <<fullData, syncId, inputSyncId>>
  /\ isSyncing' = FALSE
  /\ idRequest' = Null
  /\ UNCHANGED <<isEditingId, tempId, backups, syncFlow, plannerState>>

\* handleCloudRestore after loadGlobalBackup resolved
handleCloudRestoreAnswered ==
  /\ idRequest # Null
  /\ idRequest.op = "restore"
  /\ LET targetId == idRequest.id
         result == loadGlobalBackup(backups, targetId)
     IN IF result # Null
        THEN \E answer \in BOOLEAN :
               /\ idEvent' = IdEvent("restoreAnswered", targetId, TRUE, TRUE,
                                     answer)
               /\ IF answer
                  THEN /\ fullData' = onImportData(result.data)
                       /\ syncId' = targetId
                       /\ inputSyncId' = <<>>
                  ELSE UNCHANGED <<fullData, syncId, inputSyncId>>
        ELSE /\ idEvent' = IdEvent("restoreAnswered", targetId, FALSE, FALSE,
                                   FALSE)
             /\ UNCHANGED <<fullData, syncId, inputSyncId>>
  /\ isSyncing' = FALSE
  /\ idRequest' = Null
  /\ UNCHANGED <<isEditingId, tempId, backups, syncFlow, plannerState>>

\* the catch and finally of saveEditedId and handleCloudRestore:
\* loadGlobalBackup rejected
loadGlobalBackupRejected ==
  /\ idRequest # Null
  /\ idEvent' = IdEvent(IF idRequest.op = "probe" THEN "probeFailed"
                        ELSE "restoreFailed",
                        idRequest.id, FALSE, FALSE, FALSE)
  /\ isSyncing' = FALSE
  /\ idRequest' = Null
  /\ UNCHANGED <<fullData, syncId, inputSyncId, isEditingId, tempId, backups,
                 syncFlow, plannerState>>

\* the local data the identifier scenarios are played with
IdLocalData ==
  [trips |-> [id \in {"A"} |-> TripA], userProfile |-> "p1",
   customEvents |-> "e1"]

\* Settings mounted with or without a persisted identifier, the store holding
\* backups under some identifiers
InitId ==
  /\ fullData = IdLocalData
  /\ remoteStore = Null
  /\ SettingsInit
  /\ call = NoCall
  /\ \E id \in {<<>>, SyncKey} : IdIdle(id)
  /\ backups \in {[key \in keys |-> StoredBlob] : keys \in SUBSET StoredKeys}
  /\ PlannerInit
  /\ versionStore = <<>>

\* the effect that generates an identifier runs before the user can act
NextId ==
  \/ generateSyncId
  \/ /\ syncId # <<>>
     /\ \/ startEditingId
        \/ \E typed \in TypedIds : setTempId(typed)
        \/ \E typed \in TypedIds : setInputSyncId(typed)
        \/ saveEditedId
        \/ saveEditedIdAnswered
        \/ handleCloudRestore
        \/ handleCloudRestoreAnswered
        \/ loadGlobalBackupRejected

SpecId == InitId /\ [][NextId]_vars

(***************************************************************************)
(* Settings: the busy flag.  Sync & Merge, Restore from ID and the change  *)
(* of the Sync Identifier share isSyncing; every request that is in flight *)
(* is answered in the end (it resolves or rejects).                        *)
(***************************************************************************)
\* what the user types into the two identifier fields in these scenarios
BusyTypedIds ==
  {<<"a", "b", "b", "a">>, <<"a", "b">>, <<"w", "x", "y", "z">>}

InitBusy ==
  /\ fullData = [trips |-> [id \in {"A", "B"} |->
                              IF id = "A" THEN TripA ELSE TripB],
                 userProfile |-> "p1", customEvents |-> "e1"]
  /\ remoteStore \in OtherDeviceBlobs \cup {Null}
  /\ SettingsInit
  /\ call = NoCall
  /\ IdIdle(SyncKey)
  /\ backups = [key \in {<<"A", "B", "B", "A">>} |-> StoredBlob]
  /\ PlannerInit
  /\ versionStore = <<>>

\* a request of the sync flow is answered
SyncAnswers ==
  \E i \in 1..Len(pending) :
    \/ checkForConflictsResolved(i)
    \/ checkForConflictsRejected(i)
    \/ saveGlobalBackupWrite(i)
    \/ saveGlobalBackupResolved(i)
    \/ saveGlobalBackupRejected(i)

\* the loadGlobalBackup call of saveEditedId or handleCloudRestore is answered
IdAnswers ==
  \/ saveEditedIdAnswered
  \/ handleCloudRestoreAnswered
  \/ loadGlobalBackupRejected

\* the conflict dialog covers the page: the identifier section is out of
\* reach while it is open
NextBusy ==
  \/ handleCloudSync
  \/ SyncAnswers
  \/ handleConfirmResolution
  \/ cancelSync
  \/ /\ ~showConflictModal
     /\ \/ startEditingId
        \/ \E typed \in BusyTypedIds : setTempId(typed)
        \/ \E typed \in BusyTypedIds : setInputSyncId(typed)
        \/ saveEditedId
        \/ handleCloudRestore
  \/ IdAnswers

SpecBusy ==
  /\ InitBusy
  /\ [][NextBusy]_vars
  /\ WF_vars(SyncAnswers)
  /\ WF_vars(IdAnswers)

(***************************************************************************)
(* Planner: the edit form of a trip and its version panel (Version History *)
(* Manager).                                                               *)
(***************************************************************************)
\* a Trip Aggregate as the Planner handles it: the trip with its id
Aggregate(id, trip) ==
  [id |-> id, title |-> trip.title, budget |-> trip.budget,
   flights |-> trip.flights]

\* the fields of an aggregate other than its id
Fields(aggregate) ==
  [title |-> aggregate.title, budget |-> aggregate.budget,
   flights |-> aggregate.flights]

\* TripVersion: { id, tripId, note, data }
TripVersion(id, tripId, note, data) ==
  [id |-> id, tripId |-> tripId, note |-> note, data |-> data]

\* the versions saved earlier, oldest first
SavedVersions ==
  <<TripVersion(1, "A", "n1", Aggregate("A", [TripA EXCEPT !.budget = 50])),
    TripVersion(2, "B", "n2", Aggregate("B", [TripB EXCEPT !.flights = 0])),
    TripVersion(3, "A", "n2", Aggregate("A", [TripA EXCEPT !.title = "t2"]))>>

Reverse(seq) == [i \in 1..Len(seq) |-> seq[Len(seq) + 1 - i]]

\* SupabaseService.getTripVersions(tripId): the versions of a trip, newest
\* first
getTripVersions(stored, tripId) ==
  Reverse(SelectSeq(stored, LAMBDA v : v.tripId = tripId))

\* SupabaseService.findVersions(query): the versions whose note or trip title
\* is the query, whatever their tripId
findVersions(stored, query) ==
  Reverse(SelectSeq(stored,
                    LAMBDA v : v.note = query \/ v.data.title = query))

\* what a version listing in flight resolves to
listingResult(request) ==
  IF request.op = "list"
  THEN getTripVersions(versionStore, request.arg)
  ELSE findVersions(versionStore, request.arg)

\* variant: the budget field is left at its default
formOfDefaultBudget(trip) == [title |-> trip.title, budget |-> 1000]

\* the form fields of a trip: title and budget (trip.budget || 0)
formOf(trip) == [title |-> trip.title, budget |-> trip.budget]

PlannerEvent(kind, version, asked, answer, restored) ==
  [kind |-> kind, version |-> version, target |-> editingTripId,
   asked |-> asked, answer |-> answer, restored |-> restored,
   localBefore |-> fullData, formBefore |-> formState,
   panelBefore |-> showVersionPanel]

\* everything outside the Planner but the local data
outsidePlanner == <<isSyncing, syncFlow, idState>>

\* the edit button of a trip card (the cards are rendered below the form,
\* whether the form is open or not)
handleEditClick(id) ==
  /\ id \in DOMAIN fullData.trips
  /\ editingTripId' = id
  /\ formState' = formOf(fullData.trips[id])
  /\ showVersionPanel' = FALSE
  /\ versions' = <<>>
  /\ showForm' = TRUE
  /\ plannerEvent' = NoPlannerEvent
  /\ UNCHANGED <<fullData, versionStore, versionRequest, snapshotState,
                 outsidePlanner>>

\* resetForm
resetForm ==
  /\ formState' = EmptyForm
  /\ editingTripId' = NoTripId

\* the new-journey button: resetForm(); setShowForm(true)
openNewForm ==
  /\ ~showForm
  /\ resetForm
  /\ showForm' = TRUE
  /\ plannerEvent' = NoPlannerEvent
  /\ UNCHANGED <<fullData, showVersionPanel, versions, versionStore,
                 versionRequest, snapshotState, outsidePlanner>>

\* the cancel button of the form: setShowForm(false); resetForm()
\* (the form is rendered in place of the version panel)
cancelForm ==
  /\ showForm
  /\ ~showVersionPanel
  /\ resetForm
  /\ showForm' = FALSE
  /\ plannerEvent' = NoPlannerEvent
  /\ UNCHANGED <<fullData, showVersionPanel, versions, versionStore,
                 versionRequest, snapshotState, outsidePlanner>>

\* typing into the title or the budget field of the form
setFormState(title, budget) ==
  /\ showForm
  /\ ~showVersionPanel
  /\ formState' = [title |-> title, budget |-> budget]
  /\ formState' # formState
  /\ plannerEvent' = NoPlannerEvent
  /\ UNCHANGED <<fullData, showForm, editingTripId, showVersionPanel,
                 versions, versionStore, versionRequest, snapshotState,
                 outsidePlanner>>

\* handleSubmit of the form of an existing trip
handleSubmit ==
  /\ showForm
  /\ ~showVersionPanel
  /\ editingTripId # NoTripId
  /\ fullData' =
       IF editingTripId \in DOMAIN fullData.trips
       THEN onUpdateTrip(fullData, editingTripId,
                         [fullData.trips[editingTripId] EXCEPT
                            !.title = formState.title,
                            !.budget = formState.budget])
       ELSE fullData
  /\ showForm' = FALSE
  /\ resetForm
  /\ plannerEvent' = NoPlannerEvent
  /\ UNCHANGED <<showVersionPanel, versions, versionStore, versionRequest,
                 snapshotState, outsidePlanner>>

\* the Cloud Versions / Back to Edit button:
\* if (!showVersionPanel) loadVersions(); setShowVersionPanel(!showVersionPanel)
toggleVersionPanel ==
  /\ showForm
  /\ editingTripId # NoTripId
  /\ versionRequest' =
       IF ~showVersionPanel
       THEN versionRequest \cup {[op |-> "list", arg |-> editingTripId]}
       ELSE versionRequest
  /\ isLoadingVersions' = (~showVersionPanel \/ isLoadingVersions)
  /\ showVersionPanel' = ~showVersionPanel
  /\ plannerEvent' = NoPlannerEvent
  /\ UNCHANGED <<fullData, showForm, editingTripId, versions, formState,
                 versionStore, versionNote, toastMessage, saveRequest,
                 savedLog, outsidePlanner>>

\* handleSearchVersions up to its await
handleSearchVersions(searchQuery) ==
  /\ showForm
  /\ showVersionPanel
  /\ versionRequest' = versionRequest \cup {[op |-> "find", arg |-> searchQuery]}
  /\ isLoadingVersions' = TRUE
  /\ plannerEvent' = NoPlannerEvent
  /\ UNCHANGED <<fullData, showForm, editingTripId, showVersionPanel,
                 versions, formState, versionStore, versionNote,
                 toastMessage, saveRequest, savedLog, outsidePlanner>>

\* loadVersions and handleSearchVersions after the listing resolved
listingResolved(request) ==
  /\ request \in versionRequest
  /\ versions' = listingResult(request)
  /\ versionRequest' = versionRequest \ {request}
  /\ isLoadingVersions' = FALSE
  /\ plannerEvent' = NoPlannerEvent
  /\ UNCHANGED <<fullData, showForm, editingTripId, showVersionPanel,
                 formState, versionStore, versionNote, toastMessage,
                 saveRequest, savedLog, outsidePlanner>>

\* their catch: the listing rejected
listingRejected(request) ==
  /\ request \in versionRequest
  /\ versionRequest' = versionRequest \ {request}
  /\ isLoadingVersions' = FALSE
  /\ plannerEvent' = NoPlannerEvent
  /\ UNCHANGED <<fullData, showForm, editingTripId, showVersionPanel,
                 versions, formState, versionStore, versionNote,
                 toastMessage, saveRequest, savedLog, outsidePlanner>>

\* variant: { id: editingTripId, ...version.data }
restoredTripKeepsId(version, target) == version.data

\* const restoredTrip = { ...version.data, id: editingTripId }
restoredTrip(version, target) == [version.data EXCEPT !.id = target]

\* variant: a version of the same trip is restored without asking
restoreCommittedSameTrip(answer, isDifferentId) == answer \/ ~isDifferentId

\* the restore goes on if the user answered the window.confirm with OK
restoreCommitted(answer, isDifferentId) == answer

\* the Restore button of a listed version
handleRestoreVersion(version) ==
  /\ showForm
  /\ showVersionPanel
  /\ \E k \in 1..Len(versions) : versions[k] = version
  /\ IF editingTripId = NoTripId
     THEN /\ plannerEvent' = PlannerEvent("handleRestoreVersion", version,
                                          "none", FALSE, Null)
          /\ UNCHANGED <<fullData, formState, showVersionPanel,
                         toastMessage>>
     ELSE LET isDifferentId == version.data.id # editingTripId
              msg == IF isDifferentId THEN "crossTrip" ELSE "sameTrip"
          IN \E answer \in BOOLEAN :
               IF restoreCommitted(answer, isDifferentId)
               THEN LET restored == restoredTrip(version, editingTripId)
                    IN /\ fullData' = onUpdateTrip(fullData, restored.id,
                                                   Fields(restored))
                       /\ formState' = formOf(restored)
                       /\ toastMessage' = "restored"
                       /\ showVersionPanel' = FALSE
                       /\ plannerEvent' =
                            PlannerEvent("handleRestoreVersion", version,
                                         msg, answer, restored)
               ELSE /\ plannerEvent' =
                         PlannerEvent("handleRestoreVersion", version, msg,
                                      answer, Null)
                    /\ UNCHANGED <<fullData, formState, showVersionPanel,
                                   toastMessage>>
  /\ UNCHANGED <<showForm, editingTripId, versions, versionStore,
                 versionRequest, versionNote, isLoadingVersions, saveRequest,
                 savedLog, outsidePlanner>>

\* the local data the Planner scenarios are played with
PlannerLocalData ==
  [trips |-> [id \in {"A", "B"} |-> IF id = "A" THEN TripA ELSE TripB],
   userProfile |-> "p1", customEvents |-> "e1"]

\* what the user may search the versions for (a note, a trip title)
SearchQueries == {"n2", "t1"}

InitPlanner ==
  /\ fullData = PlannerLocalData
  /\ remoteStore = Null
  /\ SettingsInit
  /\ call = NoCall
  /\ IdIdle(SyncKey)
  /\ backups = NoBackups
  /\ PlannerInit
  /\ versionStore = SavedVersions

NextPlanner ==
  \/ \E id \in TripIds : handleEditClick(id)
  \/ openNewForm
  \/ cancelForm
  \/ \E title \in Titles, budget \in Budgets : setFormState(title, budget)
  \/ handleSubmit
  \/ toggleVersionPanel
  \/ \E searchQuery \in SearchQueries : handleSearchVersions(searchQuery)
  \/ \E request \in versionRequest : listingResolved(request)
  \/ \E request \in versionRequest : listingRejected(request)
  \/ \E k \in 1..Len(versions) : handleRestoreVersion(versions[k])

SpecPlanner == InitPlanner /\ [][NextPlanner]_vars

\* the Planner as its buttons drive it: handleSearchVersions has no call
\* site in the component, so the version list is only ever filled by
\* loadVersions
NextListing ==
  \/ \E id \in TripIds : handleEditClick(id)
  \/ openNewForm
  \/ cancelForm
  \/ \E title \in Titles, budget \in Budgets : setFormState(title, budget)
  \/ handleSubmit
  \/ toggleVersionPanel
  \/ \E request \in versionRequest : listingResolved(request)
  \/ \E request \in versionRequest : listingRejected(request)
  \/ \E k \in 1..Len(versions) : handleRestoreVersion(versions[k])

SpecListing == InitPlanner /\ [][NextListing]_vars

(***************************************************************************)
(* Planner: the snapshot box of the version panel (handleSaveVersion) and  *)
(* the store call it makes.                                                *)
(***************************************************************************)
\* Trip Versions the store may hold at the end of a behaviour
MaxVersions == 3

\* what the user may type into the note field
VersionNotes == {"", "n3"}

\* variant: the note is handed on as typed
noteOrPlaceholderAsTyped(note) == note

\* versionNote || 'Auto-save'
noteOrPlaceholder(note) == IF note = "" THEN "Auto-save" ELSE note

\* const tripToSave = { ...currentTrip, ...formState }
tripToSave(id, currentTrip, form) ==
  Aggregate(id, [currentTrip EXCEPT !.title = form.title,
                                    !.budget = form.budget])

\* variant: one version per trip, the new one taking the place of the old
saveTripVersionReplaces(stored, trip, note) ==
  Append(SelectSeq(stored, LAMBDA v : v.tripId # trip.id),
         TripVersion(Len(stored) + 1, trip.id, note, trip))

\* variant: the versions of the trip are brought up to date with it
saveTripVersionRefreshes(stored, trip, note) ==
  Append([k \in 1..Len(stored) |->
            IF stored[k].tripId = trip.id
            THEN [stored[k] EXCEPT !.data = trip]
            ELSE stored[k]],
         TripVersion(Len(stored) + 1, trip.id, note, trip))

\* SupabaseService.saveTripVersion(trip, note): appends a Trip Version of
\* the trip to the list the store holds
saveTripVersion(stored, trip, note) ==
  Append(stored, TripVersion(Len(stored) + 1, trip.id, note, trip))

\* typing into the note field of the snapshot box
setVersionNote(note) ==
  /\ showForm
  /\ showVersionPanel
  /\ note # versionNote
  /\ versionNote' = note
  /\ plannerEvent' = NoPlannerEvent
  /\ UNCHANGED <<fullData, showForm, editingTripId, showVersionPanel,
                 versions, formState, versionStore, versionRequest,
                 isLoadingVersions, toastMessage, saveRequest, savedLog,
                 outsidePlanner>>

\* handleSaveVersion up to its await (the Save button is disabled while
\* isLoadingVersions)
handleSaveVersion ==
  /\ showForm
  /\ showVersionPanel
  /\ ~isLoadingVersions
  /\ Len(versionStore) + Len(saveRequest) < MaxVersions
  /\ IF editingTripId = NoTripId
       \/ editingTripId \notin DOMAIN fullData.trips
     THEN /\ plannerEvent' = PlannerEvent("handleSaveVersion", Null, "none",
                                          FALSE, Null)
          /\ UNCHANGED <<isLoadingVersions, saveRequest>>
     ELSE LET trip == tripToSave(editingTripId,
                                 fullData.trips[editingTripId], formState)
          IN /\ isLoadingVersions' = TRUE
             /\ saveRequest' =
                  Append(saveRequest,
                         [target |-> editingTripId, trip |-> trip,
                          note |-> noteOrPlaceholder(versionNote)])
             /\ plannerEvent' = PlannerEvent("handleSaveVersion", Null,
                                             "none", FALSE, trip)
  /\ UNCHANGED <<fullData, showForm, editingTripId, showVersionPanel,
                 versions, formState, versionStore, versionRequest,
                 versionNote, toastMessage, savedLog, outsidePlanner>>

\* handleSaveVersion after saveTripVersion resolved: the note is cleared, the
\* toast is shown and loadVersions of the render of the click is awaited
saveTripVersionResolved(i) ==
  /\ i \in 1..Len(saveRequest)
  /\ LET request == saveRequest[i]
         stored == saveTripVersion(versionStore, request.trip, request.note)
     IN /\ versionStore' = stored
        /\ savedLog' = Append(savedLog, [index |-> Len(stored),
                                         data |-> request.trip])
        /\ versionNote' = ""
        /\ toastMessage' = "saved"
        /\ isLoadingVersions' = TRUE
        /\ versionRequest' =
             versionRequest \cup {[op |-> "list", arg |-> request.target]}
        /\ plannerEvent' = PlannerEvent("saveTripVersionResolved",
                                        stored[Len(stored)], request.note,
                                        FALSE, request.trip)
  /\ saveRequest' = RemoveAt(saveRequest, i)
  /\ UNCHANGED <<fullData, showForm, editingTripId, showVersionPanel,
                 versions, formState, outsidePlanner>>

\* its catch: alert("Failed to save version.")
saveTripVersionRejected(i) ==
  /\ i \in 1..Len(saveRequest)
  /\ isLoadingVersions' = FALSE
  /\ plannerEvent' = PlannerEvent("saveTripVersionRejected", Null,
                                  saveRequest[i].note, FALSE,
                                  saveRequest[i].trip)
  /\ saveRequest' = RemoveAt(saveRequest, i)
  /\ UNCHANGED <<fullData, showForm, editingTripId, showVersionPanel,
                 versions, formState, versionStore, versionRequest,
                 versionNote, toastMessage, savedLog, outsidePlanner>>

\* the Budget view changes the flights of a trip and hands the trip to
\* onUpdateTrip (the Planner is not on screen then: its form is closed and it
\* has nothing in flight)
handleSaveItem(id, flights) ==
  /\ ~showForm
  /\ versionRequest = {}
  /\ saveRequest = <<>>
  /\ id \in DOMAIN fullData.trips
  /\ flights # fullData.trips[id].flights
  /\ fullData' = onUpdateTrip(fullData, id,
                              [fullData.trips[id] EXCEPT !.flights = flights])
  /\ plannerEvent' = NoPlannerEvent
  /\ UNCHANGED <<showForm, editingTripId, showVersionPanel, versions,
                 formState, versionStore, versionRequest, snapshotState,
                 outsidePlanner>>

\* the local data the snapshot scenarios are played with: one trip
VersionsLocalData ==
  [trips |-> [id \in {"A"} |-> TripA], userProfile |-> "p1",
   customEvents |-> "e1"]

\* the store holds a version of this trip and one of a trip this device no
\* longer has, both saved earlier
InitVersions ==
  /\ fullData = VersionsLocalData
  /\ remoteStore = Null
  /\ SettingsInit
  /\ call = NoCall
  /\ IdIdle(SyncKey)
  /\ backups = NoBackups
  /\ PlannerInit
  /\ versionStore = SubSeq(SavedVersions, 1, 2)

NextVersions ==
  \/ \E id \in TripIds : handleEditClick(id)
  \/ cancelForm
  \/ \E title \in Titles, budget \in Budgets : setFormState(title, budget)
  \/ handleSubmit
  \/ toggleVersionPanel
  \/ handleSearchVersions("n2")
  \/ \E request \in versionRequest : listingResolved(request)
  \/ \E request \in versionRequest : listingRejected(request)
  \/ \E k \in 1..Len(versions) : handleRestoreVersion(versions[k])
  \/ \E note \in VersionNotes : setVersionNote(note)
  \/ handleSaveVersion
  \/ \E i \in 1..Len(saveRequest) : saveTripVersionResolved(i)
  \/ \E i \in 1..Len(saveRequest) : saveTripVersionRejected(i)
  \/ \E id \in TripIds, flights \in Flights : handleSaveItem(id, flights)

SpecVersions == InitVersions /\ [][NextVersions]_vars

(***************************************************************************)
(* The Differ and the Merge Engine as functions: detectConflicts and merge *)
(* applied to every pair of Datasets over the trip domain and to every     *)
(* Resolution Map.                                                         *)
(***************************************************************************)
FnLocals ==
  [trips : TripMaps, userProfile : {"p1"}, customEvents : {"e1"}]

FnRemotes ==
  [trips : TripMaps, userProfile : {"p2"}, customEvents : {"e2"}] \cup {Null}

InitMerge ==
  /\ call \in {Call("input", l, r, EmptyMap, <<>>, Null) :
                  l \in FnLocals, r \in FnRemotes}
  /\ fullData = Null
  /\ remoteStore = Null
  /\ SettingsInit
  /\ IdIdle(<<>>)
  /\ backups = NoBackups
  /\ PlannerInit
  /\ versionStore = <<>>

ApplyDetectConflicts ==
  /\ call.step = "input"
  /\ call' = [call EXCEPT
                 !.step = "diffed",
                 !.conflicts = detectConflicts(call.local, call.remoteData)]
  /\ UNCHANGED <<fullData, remoteStore, settingsState, pending, lastEvent,
                 localEdits, remoteWrites>>
  /\ UNCHANGED <<cancelled, failedSinceFetch, idState, plannerState>>

ApplyMerge ==
  /\ call.step = "diffed"
  /\ \E resolutions \in ResolutionMaps :
       call' = [call EXCEPT
                  !.step = "merged",
                  !.resolutions = resolutions,
                  !.merged = merge(call.local, call.remoteData, resolutions)]
  /\ UNCHANGED <<fullData, remoteStore, settingsState, pending, lastEvent,
                 localEdits, remoteWrites>>
  /\ UNCHANGED <<cancelled, failedSinceFetch, idState, plannerState>>

NextMerge == ApplyDetectConflicts \/ ApplyMerge

SpecMerge == InitMerge /\ [][NextMerge]_vars

(***************************************************************************)
(* Properties of the sync flow (checked under Spec).                       *)
(***************************************************************************)
Synced == lastEvent.kind = "synced"

\* trip ids on both sides of the sync whose outcome lastEvent records
SyncShared ==
  DOMAIN lastEvent.local.trips \cap DOMAIN RemoteTrips(lastEvent.remoteData)

SyncRemoteOnly ==
  DOMAIN RemoteTrips(lastEvent.remoteData) \ DOMAIN lastEvent.local.trips

\* C1: no silent deletion: after a sync, every trip id of the local dataset
\* and of the remote dataset the sync merged is in the dataset the sync wrote
\* to the store and in the local data it installed.
NoSilentDeletion ==
  Synced =>
    \A id \in DOMAIN lastEvent.local.trips
               \cup DOMAIN RemoteTrips(lastEvent.remoteData) :
      /\ id \in DOMAIN lastEvent.written.trips
      /\ id \in DOMAIN fullData.trips

\* a sync that merged a remote-only trip and a trip resolved to "remote"
NoSilentDeletionWitness ==
  /\ Synced
  /\ SyncRemoteOnly # {}
  /\ \E id \in SyncShared :
       /\ id \in DOMAIN lastEvent.resolutions
       /\ lastEvent.resolutions[id] = "remote"

\* C2: a failed fetch or a failed merge write leaves the local data as it
\* was, and the local data changes only by a local edit or by the import
\* that follows a write the store accepted.
NoMutationOnFailure ==
  /\ [](lastEvent.kind \in {"fetchFailed", "saveFailed"} =>
          fullData = lastEvent.localBefore)
  /\ [][fullData' # fullData =>
          \/ localEdits' = localEdits + 1
          \/ /\ lastEvent'.kind = "synced"
             /\ lastEvent'.written # Null]_vars

\* the merge write of a confirmed resolution failed, and the merge would
\* have changed the local data
NoMutationOnFailureWitness ==
  /\ lastEvent.kind = "saveFailed"
  /\ lastEvent.shown # EmptyMap
  /\ saveGlobalBackupMerged(lastEvent) # fullData

\* C3: the choice the dialog showed for a trip when the merge was confirmed
\* decides the whole trip: "remote" gives the remote trip in all fields,
\* "local" the local trip, and every merged trip is one side's trip.
ResolutionRespectsChoice ==
  Synced =>
    /\ \A id \in DOMAIN lastEvent.shown \cap SyncShared :
         fullData.trips[id] =
           IF lastEvent.shown[id] = "remote"
           THEN lastEvent.remoteData.trips[id]
           ELSE lastEvent.local.trips[id]
    /\ \A id \in DOMAIN fullData.trips :
         \/ /\ id \in DOMAIN lastEvent.local.trips
            /\ fullData.trips[id] = lastEvent.local.trips[id]
         \/ /\ id \in DOMAIN RemoteTrips(lastEvent.remoteData)
            /\ fullData.trips[id] = lastEvent.remoteData.trips[id]

\* a trip resolved to "remote" whose sides differ in a field that is not
\* compared (flights) as well as in one that is
ResolutionRespectsChoiceWitness ==
  /\ Synced
  /\ \E id \in DOMAIN lastEvent.shown \cap SyncShared :
       /\ lastEvent.shown[id] = "remote"
       /\ lastEvent.local.trips[id].flights
            # lastEvent.remoteData.trips[id].flights
       /\ lastEvent.local.trips[id].budget
            # lastEvent.remoteData.trips[id].budget
       /\ fullData.trips[id] = lastEvent.remoteData.trips[id]

\* C8: after a sync the profile and the events of the merged dataset (written
\* and installed) are those of the local dataset the sync merged.
LocalProfileAndEventsKept ==
  Synced =>
    /\ fullData.userProfile = lastEvent.local.userProfile
    /\ fullData.customEvents = lastEvent.local.customEvents
    /\ lastEvent.written.userProfile = lastEvent.local.userProfile
    /\ lastEvent.written.customEvents = lastEvent.local.customEvents

\* the remote dataset had another profile and other events, and a trip was
\* resolved to "remote"
LocalProfileAndEventsKeptWitness ==
  /\ Synced
  /\ lastEvent.remoteData # Null
  /\ lastEvent.remoteData.userProfile # lastEvent.local.userProfile
  /\ lastEvent.remoteData.customEvents # lastEvent.local.customEvents
  /\ \E id \in DOMAIN lastEvent.resolutions :
       lastEvent.resolutions[id] = "remote"

\* C9: the local data a sync installs is the blob that sync wrote, which is
\* the merge of its arguments, whatever the store holds by then.
ImportedIsWritten ==
  Synced =>
    /\ lastEvent.written = saveGlobalBackupMerged(lastEvent)
    /\ fullData = lastEvent.written

\* another device overwrote the blob between the write and its response
ImportedIsWrittenWitness ==
  /\ Synced
  /\ remoteStore # lastEvent.written

\* C10: closing the conflict dialog without confirming changes neither the
\* remote blob nor the local data and issues no request.
CancelChangesNothing ==
  [][lastEvent'.kind = "cancelled" =>
       /\ fullData' = fullData
       /\ remoteStore' = remoteStore
       /\ pending' = pending]_vars

\* a dialog was cancelled whose confirmation would have changed the local
\* data, and nothing is in flight
CancelChangesNothingWitness ==
  /\ lastEvent.kind = "cancelled"
  /\ pending = <<>>
  /\ fullData = lastEvent.localBefore
  /\ remoteStore = lastEvent.remoteBefore
  /\ \E id \in DOMAIN resolutionMap : resolutionMap[id] = "remote"
  /\ merge(fullData, remoteDataCache, resolutionMap) # fullData

(***************************************************************************)
(* Properties of the Differ and the Merge Engine (checked under SpecMerge). *)
(***************************************************************************)
Diffed == call.step \in {"diffed", "merged"}
Merged == call.step = "merged"

CallShared ==
  DOMAIN call.local.trips \cap DOMAIN RemoteTrips(call.remoteData)

CallOneSided ==
  (DOMAIN call.local.trips \cup DOMAIN RemoteTrips(call.remoteData))
    \ CallShared

\* the raw value of a compared field
RawField(trip, field) == IF field = "title" THEN trip.title ELSE trip.budget

\* the Conflict Items reported for one field of one trip
ItemsFor(id, field) ==
  SelectSeq(call.conflicts, LAMBDA c : c.tripId = id /\ c.field = field)

\* C4: default-local: a trip on both sides that has no entry in the
\* Resolution Map is shown as "local" and is merged to the local trip.
DefaultLocal ==
  Merged =>
    \A id \in CallShared \ DOMAIN call.resolutions :
      /\ currentChoice(call.resolutions, id) = "local"
      /\ call.merged.trips[id] = call.local.trips[id]

\* a trip with a Conflict Item and no entry in the map
DefaultLocalWitness ==
  /\ Merged
  /\ \E id \in CallShared \ DOMAIN call.resolutions :
       /\ \E k \in 1..Len(call.conflicts) : call.conflicts[k].tripId = id
       /\ call.merged.trips[id] # call.remoteData.trips[id]

\* C5: union: with disjoint trip id sets and an empty Resolution Map the
\* merge has |L.trips| + |R.trips| trips, each equal to its source.
UnionProperty ==
  (Merged /\ CallShared = {} /\ call.resolutions = EmptyMap) =>
    /\ Cardinality(DOMAIN call.merged.trips) =
         Cardinality(DOMAIN call.local.trips)
           + Cardinality(DOMAIN RemoteTrips(call.remoteData))
    /\ \A id \in DOMAIN call.local.trips :
         call.merged.trips[id] = call.local.trips[id]
    /\ \A id \in DOMAIN RemoteTrips(call.remoteData) :
         call.merged.trips[id] = call.remoteData.trips[id]

\* both sides have a trip, the id sets are disjoint
UnionPropertyWitness ==
  /\ Merged
  /\ call.resolutions = EmptyMap
  /\ CallShared = {}
  /\ DOMAIN call.local.trips # {}
  /\ DOMAIN RemoteTrips(call.remoteData) # {}

\* C6: every Conflict Item is about a trip id present on both sides, and a
\* trip present on one side only is in the merge unchanged.
ConflictsOnlyForSharedTrips ==
  /\ Diffed =>
       \A k \in 1..Len(call.conflicts) :
         call.conflicts[k].tripId \in CallShared
  /\ Merged =>
       \A id \in CallOneSided :
         /\ id \in DOMAIN call.merged.trips
         /\ call.merged.trips[id] =
              IF id \in DOMAIN call.local.trips
              THEN call.local.trips[id]
              ELSE call.remoteData.trips[id]

\* conflicts were found while another trip exists on one side only
ConflictsOnlyForSharedTripsWitness ==
  /\ Merged
  /\ Len(call.conflicts) > 0
  /\ CallOneSided # {}

\* C7: for a trip on both sides the Differ reports exactly one item for each
\* compared field whose values differ, carrying the two values, and none for
\* a field whose values are equal.
OneItemPerDifferingField ==
  Diffed =>
    \A id \in CallShared : \A i \in 1..Len(ComparedFields) :
      LET field == ComparedFields[i]
          localTrip == call.local.trips[id]
          remoteTrip == call.remoteData.trips[id]
          items == ItemsFor(id, field)
      IN IF RawField(localTrip, field) # RawField(remoteTrip, field)
         THEN /\ Len(items) = 1
              /\ items[1].localValue = FieldValue(localTrip, field)
              /\ items[1].remoteValue = FieldValue(remoteTrip, field)
         ELSE Len(items) = 0

\* L = {A: budget 100}, R = {A: budget 200, B: budget 50}: one item, for
\* A.budget, 100 against 200; resolved to "remote" the merge is R's trips
OneItemPerDifferingFieldWitness ==
  /\ Merged
  /\ DOMAIN call.local.trips = {"A"}
  /\ DOMAIN RemoteTrips(call.remoteData) = {"A", "B"}
  /\ call.local.trips["A"].budget = 100
  /\ call.remoteData.trips["A"].budget = 200
  /\ call.remoteData.trips["B"].budget = 50
  /\ Len(call.conflicts) = 1
  /\ call.conflicts[1].tripId = "A"
  /\ call.conflicts[1].field = "budget"
  /\ call.conflicts[1].localValue = "100"
  /\ call.conflicts[1].remoteValue = "200"
  /\ call.resolutions = [id \in {"A"} |-> "remote"]
  /\ call.merged.trips = call.remoteData.trips

(***************************************************************************)
(* Cancelling, re-entry and failure of a sync (checked under Spec).        *)
(***************************************************************************)
\* a merge is started from the dialog in this step
ConfirmStarted ==
  /\ Len(pending') = Len(pending) + 1
  /\ pending'[Len(pending')].op = "save"

\* C11: after a cancel the closed dialog is never shown again, no merge is
\* started from its cached remote dataset and choices, every sync attempt
\* starts with a fetch, and a merge that follows a fetch without conflicts
\* uses the dataset just fetched and no choices.
CancelDiscards ==
  /\ [](cancelled => ~showConflictModal)
  /\ [][ConfirmStarted => ~cancelled]_vars
  /\ [][(isSyncing' /\ ~isSyncing) =>
          /\ Len(pending') = Len(pending) + 1
          /\ pending'[Len(pending')].op = "check"]_vars
  /\ [][\A i \in 1..Len(pending) :
          (/\ Len(pending') = Len(pending)
           /\ pending[i].op = "check"
           /\ pending'[i].op = "save") =>
            /\ pending'[i].remoteData = remoteStore
            /\ pending'[i].resolutions = EmptyMap]_vars

\* after a cancel with a "remote" choice, a new sync is merging a re-fetched
\* dataset that is not the one the cancelled dialog had cached
CancelDiscardsWitness ==
  /\ cancelled
  /\ remoteDataCache # Null
  /\ \E id \in DOMAIN resolutionMap : resolutionMap[id] = "remote"
  /\ Len(pending) = 1
  /\ pending[1].op = "save"
  /\ pending[1].remoteData # remoteDataCache
  /\ pending[1].resolutions = EmptyMap

\* C12: at most one sync request of this device (checkForConflicts or
\* saveGlobalBackup) is outstanding at any time.
OneSyncRequestOutstanding == Len(pending) <= 1

\* C13: when a sync completes, a change made to the local data after the
\* sync started (a changed profile, changed events, a changed or added trip)
\* is still in the local data.
EditsInFlightKept ==
  Synced =>
    LET started == lastEvent.local
        before == lastEvent.localBefore
    IN /\ before.userProfile # started.userProfile =>
            fullData.userProfile = before.userProfile
       /\ before.customEvents # started.customEvents =>
            fullData.customEvents = before.customEvents
       /\ \A id \in DOMAIN before.trips :
            (\/ id \notin DOMAIN started.trips
             \/ started.trips[id] # before.trips[id]) =>
              /\ id \in DOMAIN fullData.trips
              /\ fullData.trips[id] = before.trips[id]

\* C14: a failed fetch ends the attempt: the status is 'error', the dialog
\* is not opened, conflicts, cache and Resolution Map are not set, the
\* request is dropped and no other is issued, and neither the store nor the
\* local data changes.
FetchFailureAborts ==
  [][lastEvent'.kind = "fetchFailed" =>
       /\ syncStatus' = "error"
       /\ isSyncing' = FALSE
       /\ showConflictModal' = showConflictModal
       /\ conflicts' = conflicts
       /\ remoteDataCache' = remoteDataCache
       /\ resolutionMap' = resolutionMap
       /\ \E i \in 1..Len(pending) :
            /\ pending[i].op = "check"
            /\ pending' = RemoveAt(pending, i)
       /\ remoteStore' = remoteStore
       /\ fullData' = fullData]_vars

\* the fetch failed while the store held a blob that conflicts with the
\* local data; nothing is in flight and no dialog is open
FetchFailureAbortsWitness ==
  /\ lastEvent.kind = "fetchFailed"
  /\ syncStatus = "error"
  /\ pending = <<>>
  /\ ~showConflictModal
  /\ remoteStore # Null
  /\ detectConflicts(lastEvent.local, remoteStore) # <<>>

\* C15: the step that opens the dialog sets the Resolution Map to "local"
\* for exactly the distinct tripIds of the Conflict Items, and while the
\* dialog is open every Conflict Item's tripId is a key of the map.
ResolutionMapInitialized ==
  /\ [][(showConflictModal' /\ ~showConflictModal) =>
          /\ conflicts' # <<>>
          /\ DOMAIN resolutionMap' = ConflictTripIds'
          /\ \A id \in DOMAIN resolutionMap' :
               resolutionMap'[id] = "local"]_vars
  /\ [](showConflictModal => ConflictTripIds \subseteq DOMAIN resolutionMap)

\* a dialog with two conflicting trips of two Conflict Items each, one of
\* them switched to "remote"
ResolutionMapInitializedWitness ==
  /\ showConflictModal
  /\ Cardinality(ConflictTripIds) = 2
  /\ Len(conflicts) = 4
  /\ DOMAIN resolutionMap = ConflictTripIds
  /\ \E id \in ConflictTripIds : resolutionMap[id] = "remote"

(***************************************************************************)
(* Properties of the Sync Identifier (checked under SpecId).               *)
(***************************************************************************)
\* uppercase letters, digits and hyphens only, at least 4 characters
IsValidIdentifier(id) ==
  /\ Len(id) >= 4
  /\ \A i \in 1..Len(id) : id[i] \in UpperLetters \cup Digits \cup {"-"}

\* C16: when the identifier submitted with the ✓ button or the Restore
\* button fails validation (trimmed and uppercased), no request is made to
\* the store and the Sync Identifier is unchanged.
InvalidIdRejected ==
  (/\ idEvent.kind \in {"saveEditedId", "handleCloudRestore"}
   /\ ~IsValidIdentifier(idEvent.id)) =>
    /\ idRequest = Null
    /\ syncId = idEvent.syncIdBefore

\* C17: a Sync Identifier that is set consists of uppercase letters, digits
\* and hyphens and has at least 4 characters.
SyncIdWellFormed == syncId # <<>> => IsValidIdentifier(syncId)

\* C18: submitting a valid new identifier changes nothing but starts a probe
\* of the store for it; the answer of the probe warns if a backup exists
\* under it, and the identifier becomes the new one exactly if the user
\* confirms; a failed probe leaves it unchanged; the local data and the
\* store are never changed.
IdChangeProbesAndConfirms ==
  /\ [][idEvent'.kind = "saveEditedId" =>
          /\ syncId' = syncId
          /\ fullData' = fullData
          /\ backups' = backups
          /\ (IsValidIdentifier(idEvent'.id) /\ idEvent'.id # syncId) =>
               idRequest' = [op |-> "probe", id |-> idEvent'.id]]_vars
  /\ [][idEvent'.kind \in {"probeAnswered", "probeFailed"} =>
          /\ idRequest = [op |-> "probe", id |-> idEvent'.id]
          /\ fullData' = fullData
          /\ backups' = backups
          /\ idEvent'.kind = "probeAnswered" =>
               /\ idEvent'.existing <=> idEvent'.id \in DOMAIN backups
               /\ idEvent'.existing => idEvent'.warned
          /\ syncId' = IF idEvent'.kind = "probeAnswered"
                          /\ idEvent'.confirmed
                       THEN idEvent'.id
                       ELSE syncId]_vars

\* the user was warned that the new identifier has a backup, confirmed, and
\* the identifier was switched with the local data as it was
IdChangeProbesAndConfirmsWitness ==
  /\ idEvent.kind = "probeAnswered"
  /\ idEvent.existing
  /\ idEvent.warned
  /\ idEvent.confirmed
  /\ syncId = idEvent.id
  /\ syncId # idEvent.syncIdBefore
  /\ fullData = idEvent.localBefore

(***************************************************************************)
(* Properties of the version restore (checked under SpecPlanner).          *)
(***************************************************************************)
\* the Restore button was clicked in the step just taken
RestoreClicked == plannerEvent.kind = "handleRestoreVersion"

\* C19: a restore the user confirmed produces an aggregate with the id of
\* the trip being edited and the other fields of version.data; that trip
\* takes these fields, and no other trip (the one with id version.data.id
\* included) is created, removed or changed.
CrossIdRestore ==
  (RestoreClicked /\ plannerEvent.answer
     /\ plannerEvent.target # NoTripId) =>
    LET version == plannerEvent.version
        target == plannerEvent.target
        before == plannerEvent.localBefore
    IN /\ plannerEvent.restored # Null
       /\ plannerEvent.restored.id = target
       /\ Fields(plannerEvent.restored) = Fields(version.data)
       /\ DOMAIN fullData.trips = DOMAIN before.trips
       /\ target \in DOMAIN fullData.trips =>
            fullData.trips[target] = Fields(version.data)
       /\ \A id \in DOMAIN fullData.trips \ {target} :
            fullData.trips[id] = before.trips[id]

\* a version of another trip was restored into the trip being edited: the
\* edited trip changed and the version's own trip did not
CrossIdRestoreWitness ==
  /\ RestoreClicked
  /\ plannerEvent.answer
  /\ plannerEvent.target # NoTripId
  /\ plannerEvent.version.data.id # plannerEvent.target
  /\ plannerEvent.version.data.id \in DOMAIN fullData.trips
  /\ fullData.trips[plannerEvent.target]
       # plannerEvent.localBefore.trips[plannerEvent.target]
  /\ fullData.trips[plannerEvent.target]
       = Fields(plannerEvent.version.data)

\* C20: with a trip being edited the user is asked before the restore, and
\* asked with the cross-trip warning when version.data.id is not the trip
\* being edited; if the user declines or no trip is being edited, the trips,
\* the form and the version panel stay as they were.
RestoreNeedsConfirmation ==
  RestoreClicked =>
    LET version == plannerEvent.version
        target == plannerEvent.target
    IN /\ target # NoTripId =>
            plannerEvent.asked = IF version.data.id # target
                                 THEN "crossTrip"
                                 ELSE "sameTrip"
       /\ (target = NoTripId \/ ~plannerEvent.answer) =>
            /\ plannerEvent.restored = Null
            /\ fullData = plannerEvent.localBefore
            /\ formState = plannerEvent.formBefore
            /\ showVersionPanel = plannerEvent.panelBefore

\* the user declined the cross-trip warning for a version that differs from
\* the trip being edited
RestoreNeedsConfirmationWitness ==
  /\ RestoreClicked
  /\ plannerEvent.target # NoTripId
  /\ plannerEvent.asked = "crossTrip"
  /\ ~plannerEvent.answer
  /\ showVersionPanel
  /\ Fields(plannerEvent.version.data) # fullData.trips[plannerEvent.target]

(***************************************************************************)
(* Properties of the Trip Versions (checked under SpecVersions).           *)
(***************************************************************************)
\* the versions the store held when the behaviour started
SeedVersions == SubSeq(SavedVersions, 1, 2)

\* the step just taken resolved a saveTripVersion call
SaveResolved == plannerEvent.kind = "saveTripVersionResolved"

\* C21: the list of Trip Versions only grows at its end: no step (saving,
\* listing, searching, restoring, editing) removes or changes a version the
\* store holds; a restore leaves the store and the list on screen as they
\* were, so the version restored is still there to be restored again.
VersionsAppendOnly ==
  [][/\ Len(versionStore') >= Len(versionStore)
     /\ SubSeq(versionStore', 1, Len(versionStore)) = versionStore
     /\ plannerEvent'.kind = "handleRestoreVersion" =>
          /\ versionStore' = versionStore
          /\ versions' = versions
          /\ \E k \in 1..Len(versionStore') :
               versionStore'[k] = plannerEvent'.version]_vars

\* a version saved in this behaviour was restored and is still in the store,
\* behind the versions saved earlier
VersionsAppendOnlyWitness ==
  /\ RestoreClicked
  /\ plannerEvent.answer
  /\ Len(savedLog) = 1
  /\ Len(versionStore) = Len(SeedVersions) + 1
  /\ plannerEvent.version = versionStore[savedLog[1].index]
  /\ SubSeq(versionStore, 1, Len(SeedVersions)) = SeedVersions
  /\ fullData # plannerEvent.localBefore

\* C22: the Save button hands the store the trip being edited overlaid with
\* the form fields and the typed note ('Auto-save' for an empty note); when the
\* call resolves exactly one version with that trip id, note and data is
\* appended; when it rejects no version is appended, no toast reports a
\* save and the listed versions stay; the local trips change in neither case.
SaveAppendsOneVersion ==
  [][/\ (plannerEvent'.kind = "handleSaveVersion"
           /\ saveRequest' # saveRequest) =>
          LET request == saveRequest'[Len(saveRequest')]
              currentTrip == fullData.trips[editingTripId]
          IN /\ saveRequest' = Append(saveRequest, request)
             /\ request.target = editingTripId
             /\ request.trip =
                  [id |-> editingTripId, title |-> formState.title,
                   budget |-> formState.budget,
                   flights |-> currentTrip.flights]
             /\ request.note = IF versionNote = "" THEN "Auto-save"
                                                   ELSE versionNote
             /\ versionStore' = versionStore
             /\ fullData' = fullData
     /\ plannerEvent'.kind = "saveTripVersionResolved" =>
          \E i \in 1..Len(saveRequest) :
            LET request == saveRequest[i]
                saved == versionStore'[Len(versionStore')]
            IN /\ saveRequest' = RemoveAt(saveRequest, i)
               /\ Len(versionStore') = Len(versionStore) + 1
               /\ SubSeq(versionStore', 1, Len(versionStore)) = versionStore
               /\ saved.tripId = request.target
               /\ saved.note = request.note
               /\ saved.data = request.trip
               /\ \A k \in 1..Len(versionStore) :
                    versionStore[k].id # saved.id
               /\ fullData' = fullData
     /\ plannerEvent'.kind = "saveTripVersionRejected" =>
          /\ versionStore' = versionStore
          /\ fullData' = fullData
          /\ toastMessage' = toastMessage
          /\ versions' = versions
          /\ versionRequest' = versionRequest
          /\ formState' = formState]_vars

\* a save with an empty note resolved: the version carries the placeholder
\* and the form's title, which the local trip does not have
SaveAppendsOneVersionWitness ==
  /\ SaveResolved
  /\ plannerEvent.version = versionStore[Len(versionStore)]
  /\ plannerEvent.version.note = "Auto-save"
  /\ plannerEvent.version.tripId = "A"
  /\ "A" \in DOMAIN fullData.trips
  /\ plannerEvent.version.data.title # fullData.trips["A"].title
  /\ plannerEvent.version.data.flights = fullData.trips["A"].flights
  /\ fullData = plannerEvent.localBefore
  /\ toastMessage = "saved"

\* C23: a Trip Version keeps the data it was saved with: whatever happens to
\* the trip afterwards (form edits, submits, restores, flight edits), every
\* version saved in this behaviour still holds the aggregate handed to the
\* store, and the versions saved earlier still hold theirs.
VersionImmutable ==
  /\ \A k \in 1..Len(savedLog) :
       /\ savedLog[k].index \in 1..Len(versionStore)
       /\ versionStore[savedLog[k].index].data = savedLog[k].data
  /\ Len(versionStore) >= Len(SeedVersions)
  /\ \A k \in 1..Len(SeedVersions) :
       versionStore[k].data = SeedVersions[k].data

\* the trip was given other flights and another title after its version was
\* saved, and the version still holds the flights and title it was saved with
VersionImmutableWitness ==
  /\ Len(savedLog) = 1
  /\ savedLog[1].data.id = "A"
  /\ "A" \in DOMAIN fullData.trips
  /\ fullData.trips["A"].flights # savedLog[1].data.flights
  /\ fullData.trips["A"].title # savedLog[1].data.title
  /\ versionStore[savedLog[1].index].data = savedLog[1].data
  /\ versionStore[savedLog[1].index].tripId = "A"

\* C24: when a version saved of a trip is restored into that trip, the trip
\* has, in every field, what was handed to the store when the version was
\* saved, whatever was done to the trip in between, and the form shows the
\* title and the budget of the snapshot.
SaveRestoreRoundTrip ==
  (RestoreClicked /\ plannerEvent.answer
     /\ plannerEvent.target # NoTripId) =>
    \A k \in 1..Len(savedLog) :
      (/\ savedLog[k].index = plannerEvent.version.id
       /\ savedLog[k].data.id = plannerEvent.target
       /\ plannerEvent.target \in DOMAIN fullData.trips) =>
        LET saved == savedLog[k].data
            trip == fullData.trips[plannerEvent.target]
        IN /\ plannerEvent.restored = saved
           /\ trip.title = saved.title
           /\ trip.budget = saved.budget
           /\ trip.flights = saved.flights
           /\ formState.title = saved.title
           /\ formState.budget = saved.budget

\* the flights, the title and the budget of the trip had been changed since
\* the version was saved, and the restore brought all three back
SaveRestoreRoundTripWitness ==
  /\ RestoreClicked
  /\ plannerEvent.answer
  /\ plannerEvent.target = "A"
  /\ Len(savedLog) = 1
  /\ savedLog[1].index = plannerEvent.version.id
  /\ savedLog[1].data.id = "A"
  /\ plannerEvent.localBefore.trips["A"].flights # savedLog[1].data.flights
  /\ plannerEvent.localBefore.trips["A"].title # savedLog[1].data.title
  /\ plannerEvent.localBefore.trips["A"].budget # savedLog[1].data.budget
  /\ fullData.trips["A"].flights = savedLog[1].data.flights
  /\ fullData.trips["A"].title = savedLog[1].data.title
  /\ fullData.trips["A"].budget = savedLog[1].data.budget
  /\ formState.title = savedLog[1].data.title

(***************************************************************************)
(* Retry, the conflict-free path and the choices of the dialog (checked    *)
(* under Spec).                                                            *)
(***************************************************************************)
\* C25: once a fetch or a merge write has failed, no merge write is in
\* flight until a sync started by the user has fetched the remote dataset
\* again.
RetryRefetches ==
  failedSinceFetch => \A i \in 1..Len(pending) : pending[i].op = "check"

\* a merge request in flight (before or after the store took its write)
IsMergeRequest(req) == req.op \in {"save", "saved"}

\* the step taken answers the fetch of the request at position i without a
\* failure: the request leaves the queue or turns into another one
FetchAnswered(i) ==
  /\ i \in 1..Len(pending)
  /\ pending[i].op = "check"
  /\ lastEvent'.kind # "fetchFailed"
  /\ \/ pending' = RemoveAt(pending, i)
     \/ /\ Len(pending') = Len(pending)
        /\ pending'[i] # pending[i]
        /\ \A j \in 1..Len(pending) \ {i} : pending'[j] = pending[j]

\* C26: when the fetch of a sync resolves and the Differ finds no conflict,
\* the merge is requested at once with the dataset just fetched and an empty
\* Resolution Map and the dialog is not opened; when it finds a conflict the
\* dialog opens and nothing is requested or written; a merge request that the
\* confirm button did not issue is one for a fetch without conflicts.
NoConflictsMergeDirectly ==
  /\ [][(\E i \in 1..Len(pending) : FetchAnswered(i)) =>
          \E i \in 1..Len(pending) :
            /\ FetchAnswered(i)
            /\ LET found == checkForConflicts(remoteStore, pending[i].local)
               IN IF Len(found.conflicts) = 0
                  THEN /\ pending' =
                            [pending EXCEPT
                               ![i] = Request("save", pending[i].local,
                                              remoteStore, EmptyMap)]
                       /\ showConflictModal' = showConflictModal
                       /\ conflicts' = conflicts
                  ELSE /\ pending' = RemoveAt(pending, i)
                       /\ showConflictModal'
                       /\ conflicts' = found.conflicts
                       /\ remoteDataCache' = remoteStore
            /\ remoteStore' = remoteStore
            /\ fullData' = fullData]_vars
  /\ [](\A i \in 1..Len(pending) :
          (IsMergeRequest(pending[i]) /\ pending[i].shown = EmptyMap) =>
            /\ pending[i].resolutions = EmptyMap
            /\ checkForConflicts(pending[i].remoteData,
                                 pending[i].local).conflicts = <<>>)

\* the fetch found a backup that has a trip the local data lacks and no
\* conflict: the merge is in flight with that backup and the dialog is closed
NoConflictsMergeDirectlyWitness ==
  /\ Len(pending) = 1
  /\ pending[1].op = "save"
  /\ pending[1].shown = EmptyMap
  /\ pending[1].resolutions = EmptyMap
  /\ pending[1].remoteData # Null
  /\ pending[1].remoteData = remoteStore
  /\ pending[1].local = fullData
  /\ DOMAIN pending[1].remoteData.trips # DOMAIN fullData.trips
  /\ ~showConflictModal
  /\ conflicts = <<>>
  /\ isSyncing

\* C27: a step that changes the Resolution Map while the dialog is open
\* changes the entry of one trip, to the value chosen, and leaves the other
\* entries, the conflict list, the cached remote dataset, the local dataset,
\* the remote store and the requests in flight as they were.
ResolutionChangeIsLocal ==
  [][(showConflictModal /\ resolutionMap' # resolutionMap
        /\ pending' = pending) =>
       /\ \E tripId \in ConflictTripIds, value \in Choices :
            /\ DOMAIN resolutionMap' = DOMAIN resolutionMap \cup {tripId}
            /\ resolutionMap'[tripId] = value
            /\ \A id \in DOMAIN resolutionMap \ {tripId} :
                 resolutionMap'[id] = resolutionMap[id]
       /\ conflicts' = conflicts
       /\ remoteDataCache' = remoteDataCache
       /\ fullData' = fullData
       /\ remoteStore' = remoteStore
       /\ showConflictModal' = showConflictModal]_vars

\* two trips are in conflict and the choice of one of them was flipped to
\* remote, the other still being local
ResolutionChangeIsLocalWitness ==
  /\ showConflictModal
  /\ pending = <<>>
  /\ ConflictTripIds = {"A", "B"}
  /\ DOMAIN resolutionMap = {"A", "B"}
  /\ resolutionMap["A"] = "remote"
  /\ resolutionMap["B"] = "local"
  /\ remoteDataCache # Null

(***************************************************************************)
(* The busy flag (checked under SpecBusy).                                 *)
(***************************************************************************)
\* C28: whenever isSyncing is set (by a sync, a restore from an identifier or
\* a change of the identifier) it is reset later, whichever way the requests
\* are answered and whatever the user answers to a confirmation; and while
\* it is set a request is in flight whose answer resets it.
BusyFlagReleased ==
  /\ isSyncing ~> ~isSyncing
  /\ [](isSyncing => (pending # <<>> \/ idRequest # Null))

\* the user declined the confirmation of a restore: the flag is reset and
\* nothing is in flight
BusyFlagReleasedWitness ==
  /\ idEvent.kind = "restoreAnswered"
  /\ idEvent.existing
  /\ ~idEvent.confirmed
  /\ ~isSyncing
  /\ idRequest = Null
  /\ pending = <<>>
  /\ ~showConflictModal
  /\ lastEvent.kind = "saveFailed"

(***************************************************************************)
(* Restore from an identifier (checked under SpecId).                      *)
(***************************************************************************)
\* the step just taken was one of handleCloudRestore
RestoreFromIdStep(kind) ==
  kind \in {"handleCloudRestore", "restoreAnswered", "restoreFailed"}

\* C29: a restore from an identifier replaces the local dataset by the
\* backup and makes the entered identifier the Sync Identifier when a backup
\* was found under it and the user confirmed, both in one step; on a blank
\* input, a failed fetch, no backup or a declined confirmation both stay as
\* they were; no step of it writes to the store.
RestoreFromIdAllOrNothing ==
  /\ [](RestoreFromIdStep(idEvent.kind) =>
          IF /\ idEvent.kind = "restoreAnswered"
             /\ idEvent.existing
             /\ idEvent.confirmed
          THEN /\ syncId = idEvent.id
               /\ idEvent.id \in DOMAIN backups
               /\ fullData = backups[idEvent.id]
          ELSE /\ syncId = idEvent.syncIdBefore
               /\ fullData = idEvent.localBefore)
  /\ [][RestoreFromIdStep(idEvent'.kind) =>
          /\ backups' = backups
          /\ remoteStore' = remoteStore
          /\ pending' = pending]_vars

\* a backup was found under an identifier other than the current one, with
\* other data than the local, and the user declined: nothing changed
RestoreFromIdAllOrNothingWitness ==
  /\ idEvent.kind = "restoreAnswered"
  /\ idEvent.existing
  /\ ~idEvent.confirmed
  /\ idEvent.id # syncId
  /\ idEvent.id \in DOMAIN backups
  /\ backups[idEvent.id] # fullData
  /\ syncId = idEvent.syncIdBefore
  /\ fullData = idEvent.localBefore
  /\ inputSyncId # <<>>

(***************************************************************************)
(* The version list on screen (checked under SpecListing, where no         *)
(* cross-trip search is run).                                              *)
(***************************************************************************)
\* C30: while the version panel is open for a trip, every version it lists
\* is a version of that trip.
ListedVersionsBelong ==
  (showForm /\ showVersionPanel /\ editingTripId # NoTripId) =>
    \A k \in 1..Len(versions) : versions[k].tripId = editingTripId

====
